---- MODULE Spec2Model ----
(***************************************************************************)
(* Model of the analysis core of src/analyzer.py: the fundamentals filter  *)
(* and signal classifier (check_fundamentals, generate_signals_row), the   *)
(* freshness resolver (get_latest_common_trade_date, get_table_max_dates), *)
(* the bulk report (get_full_analysis_report) and the targeted path        *)
(* (get_signals_for_codes), over a store of the tables data_loader.py      *)
(* creates and fills.                                                      *)
(*                                                                         *)
(* Specifications.                                                         *)
(*  - Spec: the bulk and the targeted path, each as one step, on a store.  *)
(*  - SpecFresh: the two resolvers and the two paths on one store.         *)
(*  - SpecClassify: the classifier as a function of its inputs.            *)
(*  - SpecCodes: the targeted path as a function of its code list.         *)
(*  - SpecIndicators: the moving average and percent change columns.       *)
(*  - SpecSteps: one bulk call read by read, the loader committing         *)
(*    between the reads.                                                   *)
(*  - SpecFlows: the two paths on stores that vary the foreign holdings,   *)
(*    the net financing and the float market value of one instrument.      *)
(*  - SpecTrade: init_trade_system and execute_trade of src/trader.py,     *)
(*    called one after the other on the trade tables.                      *)
(*  - SpecSessions: two calls of execute_trade for one user, their reads   *)
(*    and their committed writes interleaved.                              *)
(*  - SpecScheduler: the daily scheduler thread of src/dashboard.py, with  *)
(*    the clock counted in seconds.                                        *)
(*                                                                         *)
(* Conventions.                                                            *)
(*  - A text value (code, name, raw input) is a sequence of one-character  *)
(*    strings, so that substring tests, stripping and zero-padding are     *)
(*    computed and not assumed.                                            *)
(*  - A nullable REAL column (float_mv, total_mv) is <<>> for NULL/NaN and *)
(*    <<v>> for the number v; every comparison with NaN is false, as in    *)
(*    Python.                                                              *)
(*  - A quotient is kept exact as a record [num, den] with den > 0.        *)
(*  - A trade_date is the text YYYY-MM-DD, held as <<y, m, d>>; SQL        *)
(*    compares it as text (lexicographically), pandas converts it to a     *)
(*    day number.                                                          *)
(*  - Signal labels are the ASCII names given at generate_signals_row.     *)
(***************************************************************************)
EXTENDS Integers, Sequences, FiniteSets, TLC

VARIABLES row, info, signal,
          daily_market, margin_data, northbound_data, main_fund_flow, stock_basic,
          report, signals, fresh,
          raw_codes, cleaned_codes, call, indicators,
          trade_account, trade_positions, trade_orders, trade_result, session,
          scheduler

vars == <<row, info, signal,
          daily_market, margin_data, northbound_data, main_fund_flow, stock_basic,
          report, signals, fresh,
          raw_codes, cleaned_codes, call, indicators,
          trade_account, trade_positions, trade_orders, trade_result, session,
          scheduler>>

storeVars == <<daily_market, margin_data, northbound_data, main_fund_flow, stock_basic>>

outVars == <<report, signals, fresh>>

classifyVars == <<row, info, signal>>

\* the list get_signals_for_codes is given and the list it works with
codeVars == <<raw_codes, cleaned_codes>>

\* the bulk call in progress, and the indicator columns of the market bars
stepVars == <<call, indicators>>

\* the three trade tables, the return of the last trade-system call, and the
\* execute_trade calls in progress
tradeTables == <<trade_account, trade_positions, trade_orders>>

tradeVars == <<trade_account, trade_positions, trade_orders, trade_result, session>>

(***************************************************************************)
(* Numbers                                                                 *)
(***************************************************************************)
NaN == <<>>

IsNaN(x) == x = NaN

Num(v) == <<v>>

\* Python "x > 0" on a float that may be NaN
GtZero(x) == x # NaN /\ x[1] > 0

Rat(n, d) == [num |-> n, den |-> d]

RatZero == Rat(0, 1)

Abs(n) == IF n < 0 THEN -n ELSE n

RECURSIVE Gcd(_, _)
Gcd(a, b) == IF b = 0 THEN a ELSE Gcd(b, a % b)

\* a / b for b > 0, in lowest terms
Quot(a, b) == LET g == Gcd(Abs(a), b) IN Rat(a \div g, b \div g)

\* integer < rational, integer > rational (den > 0)
IntLtRat(c, q) == c * q.den < q.num

IntGtRat(c, q) == c * q.den > q.num

\* q < -0.003, i.e. q < -3/1000
RatLtThreshold(q, tnum, tden) == q.num * tden < tnum * q.den

\* floor division for any sign of n, d > 0
FloorDiv(n, d) == IF n >= 0 THEN n \div d ELSE -((-n + d - 1) \div d)

\* Python round(): nearest integer to n/d (d > 0), ties to the even one
RoundHalfEven(n, d) ==
    LET f == FloorDiv(n, d)
        r == n - f * d
    IN  IF r < d - r THEN f
        ELSE IF r > d - r THEN f + 1
        ELSE IF f % 2 = 0 THEN f ELSE f + 1

\* the hundredths cut off below, not rounded
Round2_floor(q, scale) ==
    LET g == Gcd(scale * 100, q.den)
    IN  FloorDiv(q.num * ((scale * 100) \div g), q.den \div g)

\* round(q * scale, 2) for a quotient q in lowest terms and scale > 0, held
\* as an integer count of hundredths
Round2(q, scale) ==
    LET g == Gcd(scale * 100, q.den)
    IN  RoundHalfEven(q.num * ((scale * 100) \div g), q.den \div g)

(***************************************************************************)
(* Fundamentals filter and signal classifier                               *)
(***************************************************************************)
MicroCapThreshold == 2000000000

SurgeThresholdNum == -3

SurgeThresholdDen == 1000

\* Python "'ST' in name"
ContainsST(name) ==
    \E i \in 1..(Len(name) - 1) : name[i] = "S" /\ name[i + 1] = "T"

check_fundamentals_le(info_series) ==
    IF ContainsST(info_series.name)
    THEN [passed |-> FALSE, reason |-> "blacklist_ST"]
    ELSE IF GtZero(info_series.total_mv) /\ info_series.total_mv[1] <= MicroCapThreshold
    THEN [passed |-> FALSE, reason |-> "blacklist_microcap"]
    ELSE [passed |-> TRUE, reason |-> ""]

check_fundamentals(info_series) ==
    IF ContainsST(info_series.name)
    THEN [passed |-> FALSE, reason |-> "blacklist_ST"]
    ELSE IF GtZero(info_series.total_mv) /\ info_series.total_mv[1] < MicroCapThreshold
    THEN [passed |-> FALSE, reason |-> "blacklist_microcap"]
    ELSE [passed |-> TRUE, reason |-> ""]

\* The six rule conditions of generate_signals_row, in source order.
Rule1(r) == IntGtRat(r.close, r.close_20d_avg) /\ r.net_financing_buy > 0 /\ r.nb_inflow > 0

Rule2(r) == IntLtRat(r.close, r.close_20d_avg) /\ (r.net_financing_buy > 0 \/ r.nb_inflow > 0)

\* both flows asked to be negative
Rule3_both(r) == IntLtRat(r.close, r.close_20d_avg) /\ (r.net_financing_buy < 0 /\ r.nb_inflow < 0)

Rule3(r) == IntLtRat(r.close, r.close_20d_avg) /\ (r.net_financing_buy < 0 \/ r.nb_inflow < 0)

Rule4(r) == RatLtThreshold(r.financing_surge_pct, SurgeThresholdNum, SurgeThresholdDen)

\* a close equal to the average taken as above it
Rule5_ge(r) == ~IntLtRat(r.close, r.close_20d_avg)

Rule5(r) == IntGtRat(r.close, r.close_20d_avg)

\* labels: strong_buy = "强力买入", watch = "关注(底部异动)", stop_loss = "止损离场",
\* capital_flight = "资金出逃", uptrend = "趋势向上", neutral = "中性"
generate_signals_row_swapped(r, i) ==
    LET f == check_fundamentals(i)
    IN  IF ~f.passed THEN f.reason
        ELSE IF Rule1(r) THEN "strong_buy"
        ELSE IF Rule3(r) THEN "stop_loss"
        ELSE IF Rule2(r) THEN "watch"
        ELSE IF Rule4(r) THEN "capital_flight"
        ELSE IF Rule5(r) THEN "uptrend"
        ELSE "neutral"

generate_signals_row_surgefirst(r, i) ==
    LET f == check_fundamentals(i)
    IN  IF ~f.passed THEN f.reason
        ELSE IF Rule1(r) THEN "strong_buy"
        ELSE IF Rule2(r) THEN "watch"
        ELSE IF Rule4(r) THEN "capital_flight"
        ELSE IF Rule3(r) THEN "stop_loss"
        ELSE IF Rule5(r) THEN "uptrend"
        ELSE "neutral"

generate_signals_row_norule3(r, i) ==
    LET f == check_fundamentals(i)
    IN  IF ~f.passed THEN f.reason
        ELSE IF Rule1(r) THEN "strong_buy"
        ELSE IF Rule2(r) THEN "watch"
        ELSE IF Rule4(r) THEN "capital_flight"
        ELSE IF Rule5(r) THEN "uptrend"
        ELSE "neutral"

generate_signals_row_nofallthrough(r, i) ==
    LET f == check_fundamentals(i)
    IN  IF ~f.passed THEN f.reason
        ELSE IF Rule1(r) THEN "strong_buy"
        ELSE IF Rule2(r) THEN "watch"
        ELSE IF Rule3(r) THEN "stop_loss"
        ELSE IF Rule4(r) THEN "capital_flight"
        ELSE IF Rule5(r) THEN "uptrend"
        ELSE "none"

generate_signals_row(r, i) ==
    LET f == check_fundamentals(i)
    IN  IF ~f.passed THEN f.reason
        ELSE IF Rule1(r) THEN "strong_buy"
        ELSE IF Rule2(r) THEN "watch"
        ELSE IF Rule3(r) THEN "stop_loss"
        ELSE IF Rule4(r) THEN "capital_flight"
        ELSE IF Rule5(r) THEN "uptrend"
        ELSE "neutral"

(***************************************************************************)
(* Dates and texts                                                         *)
(***************************************************************************)
\* month lengths of a non-leap year; the dates of the model lie in 2025
DaysInMonth == <<31, 28, 31, 30, 31, 30, 31, 31, 30, 31, 30, 31>>

BaseYear == 2025

RECURSIVE DaysBefore(_)
DaysBefore(m) == IF m = 1 THEN 0 ELSE DaysInMonth[m - 1] + DaysBefore(m - 1)

\* pd.to_datetime on 'YYYY-MM-DD': the day number, day 1 = 1 January BaseYear
to_datetime(d) == (d[1] - BaseYear) * 365 + DaysBefore(d[2]) + d[3]

RECURSIVE MonthDay(_, _)
MonthDay(doy, m) ==
    IF doy <= DaysInMonth[m] THEN <<m, doy>> ELSE MonthDay(doy - DaysInMonth[m], m + 1)

\* Timestamp.strftime('%Y-%m-%d') of day number n >= 1
strftime(n) ==
    LET y  == BaseYear + ((n - 1) \div 365)
        md == MonthDay(((n - 1) % 365) + 1, 1)
    IN  <<y, md[1], md[2]>>

\* SQL comparison of two trade_date texts
DateLess(a, b) ==
    \/ a[1] < b[1]
    \/ a[1] = b[1] /\ a[2] < b[2]
    \/ a[1] = b[1] /\ a[2] = b[2] /\ a[3] < b[3]

DateLeq(a, b) == a = b \/ DateLess(a, b)

\* characters in code-point order
CharOrder == <<" ", "0", "1", "2", "3", "4", "5", "6", "7", "8", "9", "S", "T", "a", "b", "c", "s">>

CharRank(c) == CHOOSE j \in DOMAIN CharOrder : CharOrder[j] = c

Digits == {"0", "1", "2", "3", "4", "5", "6", "7", "8", "9"}

RECURSIVE TextLess(_, _)
TextLess(a, b) ==
    IF b = <<>> THEN FALSE
    ELSE IF a = <<>> THEN TRUE
    ELSE IF Head(a) = Head(b) THEN TextLess(Tail(a), Tail(b))
    ELSE CharRank(Head(a)) < CharRank(Head(b))

\* sorted(set) of texts, ascending
RECURSIVE SortTexts(_)
SortTexts(S) ==
    IF S = {} THEN <<>>
    ELSE LET m == CHOOSE x \in S : \A y \in S \ {x} : TextLess(x, y)
         IN  <<m>> \o SortTexts(S \ {m})

(***************************************************************************)
(* Store reads                                                             *)
(***************************************************************************)
\* A table is [exists, rows]; reading a table that does not exist raises.
ReadFails(table) == ~table.exists

None == <<>>

MaxDateOf(rows) ==
    CHOOSE d \in {r.trade_date : r \in rows} :
        \A r \in rows : DateLeq(r.trade_date, d)

\* SELECT MAX(trade_date) FROM table: None on an empty table
SelectMaxTradeDate(table) ==
    IF table.rows = {} THEN None ELSE <<MaxDateOf(table.rows)>>

\* SELECT ... WHERE trade_date >= start AND trade_date <= end
SelectWindow(table, start, end) ==
    {r \in table.rows : DateLeq(start, r.trade_date) /\ DateLeq(r.trade_date, end)}

\* the same with AND code IN (codes)
SelectWindowCodes(table, codes, start, end) ==
    {r \in SelectWindow(table, start, end) : r.code \in codes}

(***************************************************************************)
(* Freshness resolver                                                      *)
(***************************************************************************)
CoreTables == <<"daily_market", "margin_data", "northbound_data", "main_fund_flow">>

TableOf(db, name) ==
    CASE name = "daily_market"    -> db.daily_market
      [] name = "margin_data"     -> db.margin_data
      [] name = "northbound_data" -> db.northbound_data
      [] name = "main_fund_flow"  -> db.main_fund_flow

\* max_date of one table as both resolvers read it: None when the read raises
TableMaxDate(db, name) ==
    IF ReadFails(TableOf(db, name)) THEN None ELSE SelectMaxTradeDate(TableOf(db, name))

MinOf(S) == CHOOSE x \in S : \A y \in S : x <= y

MaxOf(S) == CHOOSE x \in S : \A y \in S : x >= y

get_latest_common_trade_date_max(db) ==
    LET max_dates == {to_datetime(TableMaxDate(db, CoreTables[j])[1]) :
                        j \in {k \in DOMAIN CoreTables : TableMaxDate(db, CoreTables[k]) # None}}
    IN  IF max_dates = {} THEN None ELSE <<strftime(MaxOf(max_dates))>>

get_latest_common_trade_date(db) ==
    LET max_dates == {to_datetime(TableMaxDate(db, CoreTables[j])[1]) :
                        j \in {k \in DOMAIN CoreTables : TableMaxDate(db, CoreTables[k]) # None}}
    IN  IF max_dates = {} THEN None ELSE <<strftime(MinOf(max_dates))>>

get_table_max_dates(db) ==
    [name \in {CoreTables[j] : j \in DOMAIN CoreTables} |-> TableMaxDate(db, name)]

(***************************************************************************)
(* Indicator engine (pandas steps shared in form by both report paths)     *)
(***************************************************************************)
\* sort_values(['code', 'trade_date']) then groupby('code'): the rows of one
\* code, ascending by converted date
RECURSIVE SortByDate(_)
SortByDate(S) ==
    IF S = {} THEN <<>>
    ELSE LET m == CHOOSE r \in S :
                    \A q \in S : to_datetime(r.trade_date) <= to_datetime(q.trade_date)
         IN  <<m>> \o SortByDate(S \ {m})

SeriesOf(rows, code) == SortByDate({r \in rows : r.code = code})

CodesOf(rows) == {r.code : r \in rows}

MAWindow == 20

RECURSIVE SumCloses(_, _, _)
SumCloses(ser, i, j) == IF i > j THEN 0 ELSE ser[i].close + SumCloses(ser, i + 1, j)

\* the mean of all the bars up to position k, without the limit of 20
RollingMean_expanding(ser, k) == Quot(SumCloses(ser, 1, k), k)

\* rolling(20, min_periods=1).mean() at position k of a series
RollingMean(ser, k) ==
    LET lo == IF k - MAWindow + 1 > 1 THEN k - MAWindow + 1 ELSE 1
    IN  Quot(SumCloses(ser, lo, k), k - lo + 1)

\* the first position filled with zero
PctChange_zerofirst(ser, k) ==
    IF k = 1 THEN <<RatZero>>
    ELSE <<Quot((ser[k].close - ser[k - 1].close) * 100, ser[k - 1].close)>>

\* pct_change() * 100 at position k: NaN at the first position
PctChange(ser, k) ==
    IF k = 1 THEN NaN
    ELSE <<Quot((ser[k].close - ser[k - 1].close) * 100, ser[k - 1].close)>>

\* diff() at position k of the holding values: NaN at the first position
HoldDiff(ser, k) ==
    IF k = 1 THEN NaN ELSE <<ser[k].net_inflow - ser[k - 1].net_inflow>>

\* fillna(0)
FillNa0(x) == IF x = NaN THEN 0 ELSE x[1]

\* float(x or 0) > 0 for a REAL that may be NaN, then the guarded quotient
GuardedQuot_nonzero(a, mv) == IF mv # NaN /\ mv[1] # 0 THEN Quot(a * (IF mv[1] < 0 THEN -1 ELSE 1), Abs(mv[1])) ELSE RatZero

GuardedQuot(a, mv) == IF GtZero(mv) THEN Quot(a, mv[1]) ELSE RatZero

\* sort_values(['code', 'trade_date']), then close_20d_avg and chg_pct by code:
\* for each code its bars in date order with the two columns added
IndicatorColumns(daily_df) ==
    [c \in CodesOf(daily_df) |->
        LET ser == SeriesOf(daily_df, c)
        IN  [k \in 1..Len(ser) |->
                [trade_date    |-> ser[k].trade_date,
                 close         |-> ser[k].close,
                 close_20d_avg |-> RollingMean(ser, k),
                 chg_pct       |-> PctChange(ser, k)]]]

LookbackDefault == 60

BasicOf(basic_rows, code) == CHOOSE b \in basic_rows : b.code = code

\* results of a call: a DataFrame (its column set and its rows in order) or
\* an exception that leaves the function
EmptyFrame == [called |-> TRUE, raised |-> FALSE, columns |-> {}, rows |-> <<>>]

RaisedCall == [called |-> TRUE, raised |-> TRUE, columns |-> {}, rows |-> <<>>]

Frame(cols, rws) ==
    [called |-> TRUE, raised |-> FALSE, columns |-> IF rws = <<>> THEN {} ELSE cols, rows |-> rws]

(***************************************************************************)
(* Bulk report: get_full_analysis_report                                   *)
(* Of the output columns, Name, Sector, Industry, PE, Mkt Cap and          *)
(* Turnover% copy reference and bar fields through and are left out.       *)
(***************************************************************************)
BulkColumns == {"Code", "Signal", "Close", "Chg", "FinancingBal", "FinancingNet",
                "NorthboundHold", "NBInflow", "MainInflow", "FinMV", "NBMV",
                "FinTMV", "NBTMV", "SurgeScore"}

ZeroFinancing == [financing_balance |-> 0, net_financing_buy |-> 0]

\* margin_latest joined by code onto the snapshot, then fillna(0)
BulkFinancing_bydate(margin_df, code, bar_date) ==
    LET same == {r \in margin_df : r.code = code /\ r.trade_date = bar_date}
    IN  IF same = {} THEN ZeroFinancing
        ELSE LET m == CHOOSE r \in same : TRUE
             IN  [financing_balance |-> m.financing_balance,
                  net_financing_buy |-> m.net_financing_buy]

BulkFinancing(margin_df, code, bar_date) ==
    LET ser == SeriesOf(margin_df, code)
    IN  IF ser = <<>> THEN ZeroFinancing
        ELSE [financing_balance |-> ser[Len(ser)].financing_balance,
              net_financing_buy |-> ser[Len(ser)].net_financing_buy]

\* main_latest joined by code, then fillna(0)
BulkMainInflow(main_df, code) ==
    LET ser == SeriesOf(main_df, code)
    IN  IF ser = <<>> THEN 0 ELSE ser[Len(ser)].main_net_inflow

\* nb_hold_map.get(code, 0.0) and nb_inflow_map.get(code, 0.0)
BulkNbHold(nb_df, code) ==
    LET ser == SeriesOf(nb_df, code)
    IN  IF ser = <<>> THEN 0 ELSE ser[Len(ser)].net_inflow

\* the difference taken against the first holding of the window
BulkNbInflow_fromfirst(nb_df, code) ==
    LET ser == SeriesOf(nb_df, code)
    IN  IF ser = <<>> THEN 0 ELSE ser[Len(ser)].net_inflow - ser[1].net_inflow

BulkNbInflow(nb_df, code) ==
    LET ser == SeriesOf(nb_df, code)
    IN  IF ser = <<>> THEN 0 ELSE FillNa0(HoldDiff(ser, Len(ser)))

\* one output row of the loop over the snapshot
BulkRow(code, daily_df, margin_df, main_df, nb_df, basic_rows) ==
    LET ser       == SeriesOf(daily_df, code)
        n         == Len(ser)
        b         == BasicOf(basic_rows, code)
        fin       == BulkFinancing(margin_df, code, ser[n].trade_date)
        nb_inflow == BulkNbInflow(nb_df, code)
        surge     == GuardedQuot(fin.net_financing_buy, b.float_mv)
        chg       == PctChange(ser, n)
        sigrow    == [close |-> ser[n].close,
                      close_20d_avg |-> RollingMean(ser, n),
                      net_financing_buy |-> fin.net_financing_buy,
                      nb_inflow |-> nb_inflow,
                      financing_surge_pct |-> surge]
    IN  [Code           |-> code,
         Signal         |-> generate_signals_row(sigrow, [name |-> b.name, total_mv |-> b.total_mv]),
         Close          |-> Round2(Quot(ser[n].close, 1), 1),
         Chg            |-> IF chg = NaN THEN NaN ELSE <<Round2(chg[1], 1)>>,
         FinancingBal   |-> Round2(Quot(fin.financing_balance, 100000000), 1),
         FinancingNet   |-> Round2(Quot(fin.net_financing_buy, 10000), 1),
         NorthboundHold |-> Round2(Quot(BulkNbHold(nb_df, code), 100000000), 1),
         NBInflow       |-> Round2(Quot(nb_inflow, 10000), 1),
         MainInflow     |-> Round2(Quot(BulkMainInflow(main_df, code), 10000), 1),
         FinMV          |-> Round2(GuardedQuot(fin.net_financing_buy, b.float_mv), 100),
         NBMV           |-> Round2(GuardedQuot(nb_inflow, b.float_mv), 100),
         FinTMV         |-> Round2(GuardedQuot(fin.net_financing_buy, b.total_mv), 100),
         NBTMV          |-> Round2(GuardedQuot(nb_inflow, b.total_mv), 100),
         SurgeScore     |-> Round2(surge, 1000)]

\* the read of margin_data in the bulk path stands outside any try block
BulkMarginReadRaises(db) == ReadFails(db.margin_data)

OptionalRead(table, start, end) ==
    IF ReadFails(table) THEN {} ELSE SelectWindow(table, start, end)

\* the report from the frames read: the steps after the connection is closed
BulkCompute(basic, daily_df, margin_df, main_df, nb_df) ==
    IF daily_df = {} THEN EmptyFrame
    ELSE LET snapshot == SortTexts(CodesOf(daily_df))
             kept     == SelectSeq(snapshot, LAMBDA c : c \in CodesOf(basic))
         IN  Frame(BulkColumns,
                   [j \in 1..Len(kept) |->
                       BulkRow(kept[j], daily_df, margin_df, main_df, nb_df, basic)])

\* the margin read moved in front of the date range
get_full_analysis_report_marginfirst(db) ==
    IF ReadFails(db.stock_basic) THEN EmptyFrame
    ELSE IF BulkMarginReadRaises(db) THEN RaisedCall
    ELSE IF ReadFails(db.daily_market) THEN EmptyFrame
    ELSE IF SelectMaxTradeDate(db.daily_market) = None THEN EmptyFrame
    ELSE LET end_date_str   == SelectMaxTradeDate(db.daily_market)[1]
             start_date_str == strftime(to_datetime(end_date_str) - 60)
         IN  BulkCompute(db.stock_basic.rows,
                         SelectWindow(db.daily_market, start_date_str, end_date_str),
                         OptionalRead(db.margin_data, start_date_str, end_date_str),
                         OptionalRead(db.main_fund_flow, start_date_str, end_date_str),
                         OptionalRead(db.northbound_data, start_date_str, end_date_str))

get_full_analysis_report(db) ==
    IF ReadFails(db.stock_basic) THEN EmptyFrame
    ELSE IF ReadFails(db.daily_market) THEN EmptyFrame
    ELSE IF SelectMaxTradeDate(db.daily_market) = None THEN EmptyFrame
    ELSE LET end_date_str   == SelectMaxTradeDate(db.daily_market)[1]
             start_date_str == strftime(to_datetime(end_date_str) - 60)
         IN  IF BulkMarginReadRaises(db) THEN RaisedCall
             ELSE BulkCompute(db.stock_basic.rows,
                              SelectWindow(db.daily_market, start_date_str, end_date_str),
                              OptionalRead(db.margin_data, start_date_str, end_date_str),
                              OptionalRead(db.main_fund_flow, start_date_str, end_date_str),
                              OptionalRead(db.northbound_data, start_date_str, end_date_str))

(***************************************************************************)
(* Targeted path: get_signals_for_codes                                    *)
(***************************************************************************)
ReducedColumns == {"Code", "Signal", "SurgeScore"}

\* pd.DataFrame(columns=["Code", "Signal", "Surge Score"])
ReducedEmpty == [called |-> TRUE, raised |-> FALSE, columns |-> ReducedColumns, rows |-> <<>>]

\* a raw input is None or a text
NoneCode == [isNone |-> TRUE, s |-> <<>>]

Raw(t) == [isNone |-> FALSE, s |-> t]

RECURSIVE LStrip(_)
LStrip(t) == IF t # <<>> /\ Head(t) = " " THEN LStrip(Tail(t)) ELSE t

RECURSIVE RStrip(_)
RStrip(t) ==
    IF t # <<>> /\ t[Len(t)] = " " THEN RStrip(SubSeq(t, 1, Len(t) - 1)) ELSE t

\* str.strip()
Strip(t) == RStrip(LStrip(t))

\* str.isdigit(): non-empty and digits only
IsDigit(t) == t # <<>> /\ \A j \in DOMAIN t : t[j] \in Digits

\* str.zfill(w): zeros on the left up to width w, never shortened
RECURSIVE ZFill(_, _)
ZFill(t, w) == IF Len(t) >= w THEN t ELSE ZFill(<<"0">> \o t, w)

\* "".join(ch for ch in s if ch.isdigit())
DigitsOf(t) == SelectSeq(t, LAMBDA ch : ch \in Digits)

CodeWidth == 6

\* a digit string taken as it is, without the zeros on its left
CleanOne_nozfill(c) ==
    IF c.isNone THEN {}
    ELSE LET t == Strip(c.s)
         IN  IF t = <<>> THEN {}
             ELSE IF IsDigit(t) THEN {t}
             ELSE IF Len(DigitsOf(t)) = CodeWidth THEN {DigitsOf(t)}
             ELSE {}

\* what one raw input contributes to the list cleaned
CleanOne(c) ==
    IF c.isNone THEN {}
    ELSE LET t == Strip(c.s)
         IN  IF t = <<>> THEN {}
             ELSE IF IsDigit(t) THEN {ZFill(t, CodeWidth)}
             ELSE IF Len(DigitsOf(t)) = CodeWidth THEN {DigitsOf(t)}
             ELSE {}

\* the list cleaned, in the order of the input and with its repetitions
RECURSIVE CleanedList(_)
CleanedList(codes) ==
    IF codes = <<>> THEN <<>>
    ELSE (IF CleanOne(Head(codes)) = {} THEN <<>>
          ELSE <<CHOOSE t \in CleanOne(Head(codes)) : TRUE>>) \o CleanedList(Tail(codes))

\* set(cleaned)
Cleaned(codes) == UNION {CleanOne(codes[j]) : j \in DOMAIN codes}

WorkingCodes_asgiven(codes) == CleanedList(codes)

\* codes = sorted(set(cleaned))
WorkingCodes(codes) == SortTexts(Cleaned(codes))

\* margin_latest joined by code onto latest, then fillna(0.0)
TargetedNetFinancing_bydate(margin_df, code, bar_date) ==
    LET same == {r \in margin_df : r.code = code /\ r.trade_date = bar_date}
    IN  IF same = {} THEN 0 ELSE (CHOOSE r \in same : TRUE).net_financing_buy

TargetedNetFinancing(margin_df, code, bar_date) ==
    LET ser == SeriesOf(margin_df, code)
    IN  IF ser = <<>> THEN 0 ELSE ser[Len(ser)].net_financing_buy

\* nb_inflow_map.get(code, 0.0)
TargetedNbInflow(nb_df, code) ==
    LET ser == SeriesOf(nb_df, code)
    IN  IF ser = <<>> THEN 0 ELSE FillNa0(HoldDiff(ser, Len(ser)))

TargetedRow(code, daily_df, margin_df, nb_df, basic_rows) ==
    LET ser     == SeriesOf(daily_df, code)
        n       == Len(ser)
        b       == BasicOf(basic_rows, code)
        fin_net == TargetedNetFinancing(margin_df, code, ser[n].trade_date)
        surge   == GuardedQuot(fin_net, b.float_mv)
        sigrow  == [close |-> ser[n].close,
                    close_20d_avg |-> RollingMean(ser, n),
                    net_financing_buy |-> fin_net,
                    nb_inflow |-> TargetedNbInflow(nb_df, code),
                    financing_surge_pct |-> surge]
    IN  [Code       |-> code,
         Signal     |-> generate_signals_row(sigrow, [name |-> b.name, total_mv |-> b.total_mv]),
         SurgeScore |-> Round2(surge, 1000)]

OptionalReadCodes(table, codes, start, end) ==
    IF ReadFails(table) THEN {} ELSE SelectWindowCodes(table, codes, start, end)

\* the test of the maximum date left out: the date arithmetic on a missing
\* date raises
get_signals_for_codes_nonullcheck(db, codes, lookback_days) ==
    IF codes = <<>> THEN ReducedEmpty
    ELSE LET sorted  == WorkingCodes(codes)
             cleaned == {sorted[j] : j \in DOMAIN sorted}
         IN
         IF sorted = <<>> THEN ReducedEmpty
         ELSE IF ReadFails(db.stock_basic) THEN ReducedEmpty
         ELSE LET basic == {b \in db.stock_basic.rows : b.code \in cleaned} IN
         IF basic = {} THEN ReducedEmpty
         ELSE IF ReadFails(db.daily_market) THEN ReducedEmpty
         ELSE IF SelectMaxTradeDate(db.daily_market) = None THEN RaisedCall
         ELSE LET end_date       == to_datetime(SelectMaxTradeDate(db.daily_market)[1])
                  lookback       == IF lookback_days = 0 THEN LookbackDefault ELSE lookback_days
                  start_date_str == strftime(end_date - lookback)
                  end_date_str   == strftime(end_date)
                  daily_df       == SelectWindowCodes(db.daily_market, cleaned,
                                                      start_date_str, end_date_str)
              IN
              IF daily_df = {} THEN ReducedEmpty
              ELSE LET margin_df == OptionalReadCodes(db.margin_data, cleaned,
                                                      start_date_str, end_date_str)
                       nb_df     == OptionalReadCodes(db.northbound_data, cleaned,
                                                      start_date_str, end_date_str)
                       kept      == SelectSeq(sorted,
                                        LAMBDA c : c \in CodesOf(basic) /\ c \in CodesOf(daily_df))
                   IN  Frame(ReducedColumns,
                             [j \in 1..Len(kept) |->
                                 TargetedRow(kept[j], daily_df, margin_df, nb_df, basic)])

get_signals_for_codes(db, codes, lookback_days) ==
    IF codes = <<>> THEN ReducedEmpty
    ELSE LET sorted  == WorkingCodes(codes)
             cleaned == {sorted[j] : j \in DOMAIN sorted}
         IN
         IF sorted = <<>> THEN ReducedEmpty
         ELSE IF ReadFails(db.stock_basic) THEN ReducedEmpty
         ELSE LET basic == {b \in db.stock_basic.rows : b.code \in cleaned} IN
         IF basic = {} THEN ReducedEmpty
         ELSE IF ReadFails(db.daily_market) THEN ReducedEmpty
         ELSE IF SelectMaxTradeDate(db.daily_market) = None THEN ReducedEmpty
         ELSE LET end_date       == to_datetime(SelectMaxTradeDate(db.daily_market)[1])
                  lookback       == IF lookback_days = 0 THEN LookbackDefault ELSE lookback_days
                  start_date_str == strftime(end_date - lookback)
                  end_date_str   == strftime(end_date)
                  daily_df       == SelectWindowCodes(db.daily_market, cleaned,
                                                      start_date_str, end_date_str)
              IN
              IF daily_df = {} THEN ReducedEmpty
              ELSE LET margin_df == OptionalReadCodes(db.margin_data, cleaned,
                                                      start_date_str, end_date_str)
                       nb_df     == OptionalReadCodes(db.northbound_data, cleaned,
                                                      start_date_str, end_date_str)
                       kept      == SelectSeq(sorted,
                                        LAMBDA c : c \in CodesOf(basic) /\ c \in CodesOf(daily_df))
                   IN  Frame(ReducedColumns,
                             [j \in 1..Len(kept) |->
                                 TargetedRow(kept[j], daily_df, margin_df, nb_df, basic)])

(***************************************************************************)
(* Paper trading (trader.py).  Money is an integer count of hundredths of  *)
(* a yuan and avg_cost a count of ten-thousandths; a rate is a quotient.   *)
(* A trade table is [exists, columns, rows]; account rows carry user_id    *)
(* and cash, position rows user_id, code, quantity and avg_cost, and the   *)
(* orders are kept in insertion order.  Names of Chinese characters stand  *)
(* for the characters: "zhai" for the bond mark, "zhuan" "zhai" for the    *)
(* convertible-bond mark, "ji" "jin" for the fund mark.                    *)
(***************************************************************************)
COMMISSION_RATE == Rat(3, 10000)

MIN_COMMISSION == 500

STAMP_DUTY_RATE == Rat(1, 1000)

TRANSFER_FEE_RATE_SH == Rat(1, 100000)

\* round(v, 2) of a quotient of hundredths
_round_money(v) == RoundHalfEven(v.num, v.den)

\* amount * rate
TimesRate(amount, rate) == Quot(amount * rate.num, rate.den)

UpperPairs == {<<"b", "B">>, <<"e", "E">>, <<"f", "F">>, <<"l", "L">>, <<"o", "O">>,
               <<"s", "S">>, <<"t", "T">>, <<"u", "U">>, <<"y", "Y">>}

\* str.upper()
Upper(t) ==
    [j \in DOMAIN t |->
        IF \E p \in UpperPairs : p[1] = t[j]
        THEN (CHOOSE p \in UpperPairs : p[1] = t[j])[2]
        ELSE t[j]]

\* sub in text
Contains(sub, text) ==
    \E i \in 0..(Len(text) - Len(sub)) : SubSeq(text, i + 1, i + Len(sub)) = sub

\* str.startswith(prefix)
StartsWith(t, prefix) == Len(t) >= Len(prefix) /\ SubSeq(t, 1, Len(prefix)) = prefix

_normalize_code(code) ==
    IF code.isNone THEN <<>>
    ELSE LET digits == DigitsOf(Strip(code.s))
         IN  IF digits = <<>> THEN <<>>
             ELSE IF Len(digits) <= 6 THEN ZFill(digits, 6)
             ELSE SubSeq(digits, Len(digits) - 5, Len(digits))

_market_for_code(code) ==
    LET c == _normalize_code(Raw(code))
    IN  IF c = <<>> THEN "SZ"
        ELSE IF \E p \in {<<"6">>, <<"5">>, <<"9">>, <<"1", "1">>} : StartsWith(c, p)
        THEN "SH" ELSE "SZ"

_instrument_type(code, name) ==
    LET c == _normalize_code(Raw(code))
    IN  IF name # <<>> /\ (Contains(<<"E", "T", "F">>, Upper(name))
                           \/ Contains(<<"L", "O", "F">>, Upper(name)))
        THEN "fund"
        ELSE IF name # <<>> /\ (Contains(<<"zhai">>, name) \/ Contains(<<"zhuan", "zhai">>, name))
        THEN "bond"
        ELSE IF name # <<>> /\ Contains(<<"ji", "jin">>, name)
        THEN "fund"
        ELSE IF \E p \in {<<"1", "1">>, <<"1", "2">>, <<"1", "3">>} : StartsWith(c, p)
        THEN "bond"
        ELSE IF \E p \in {<<"1", "5">>, <<"1", "6">>, <<"1", "8">>, <<"5">>} : StartsWith(c, p)
        THEN "fund"
        ELSE "stock"

BUY == <<"B", "U", "Y">>

SELL == <<"S", "E", "L", "L">>

calc_trade_fees(action, code, name, amount) ==
    LET act        == Strip(Upper(action))
        c          == _normalize_code(Raw(code))
        amt        == IF amount > 0 THEN amount ELSE 0
        instrument == _instrument_type(c, name)
        market     == _market_for_code(c)
        rated      == TimesRate(amt, COMMISSION_RATE)
        commission == IF amt > 0
                      THEN _round_money(IF IntGtRat(MIN_COMMISSION, rated)
                                        THEN Rat(MIN_COMMISSION, 1) ELSE rated)
                      ELSE 0
        stamp_duty == IF act = SELL /\ instrument = "stock" /\ amt > 0
                      THEN _round_money(TimesRate(amt, STAMP_DUTY_RATE)) ELSE 0
        transfer_fee == IF market = "SH" /\ instrument # "bond" /\ amt > 0
                        THEN _round_money(TimesRate(amt, TRANSFER_FEE_RATE_SH)) ELSE 0
    IN  [commission |-> commission, stamp_duty |-> stamp_duty, transfer_fee |-> transfer_fee,
         total_fee |-> commission + stamp_duty + transfer_fee,
         instrument |-> instrument, market |-> market]

AccountColumns == {"user_id", "cash", "total_assets", "updated_at"}

PositionColumns == {"user_id", "code", "name", "quantity", "avg_cost", "open_time",
                    "last_trade_time", "updated_at"}

OrderColumns == {"id", "user_id", "trade_date", "code", "name", "action", "price", "quantity",
                 "amount", "commission", "stamp_duty", "transfer_fee", "total_fee",
                 "cash_change", "realized_pnl", "balance_after", "created_at"}

TradeTable(cols, rws) == [exists |-> TRUE, columns |-> cols, rows |-> rws]

\* a table that was never created, or was dropped
NoTable(rws) == [exists |-> FALSE, columns |-> {}, rows |-> rws]

\* the statement names a table that exists and columns it has
Usable(table, cols) == table.exists /\ cols \subseteq table.columns

\* ALTER TABLE .. ADD COLUMN for each column of cols the table lacks
AddColumns(table, cols) == [table EXCEPT !.columns = @ \cup cols]

_ensure_trade_schema(T) ==
    [account   |-> AddColumns(T.account, {"cash", "total_assets", "updated_at"}),
     positions |-> AddColumns(T.positions, {"open_time", "last_trade_time"}),
     orders    |-> AddColumns(T.orders, {"stamp_duty", "transfer_fee", "total_fee",
                                         "cash_change", "realized_pnl"})]

\* INSERT .. ON CONFLICT(user_id) DO NOTHING, user by user
RECURSIVE InsertAccounts(_, _, _)
InsertAccounts(account, users, initial_capital) ==
    IF users = <<>> THEN account
    ELSE LET u     == Head(users)
             added == IF \E a \in account.rows : a.user_id = u THEN account
                      ELSE [account EXCEPT !.rows = @ \cup {[user_id |-> u,
                                                              cash |-> initial_capital]}]
         IN  InsertAccounts(added, Tail(users), initial_capital)

\* accounts overwritten with the initial capital
init_trade_system_replacing(T, initial_capital, users, reset) ==
    LET kept     == IF reset
                    THEN [account |-> NoTable({}), positions |-> NoTable({}),
                          orders |-> NoTable(<<>>)]
                    ELSE T
        created  == [account   |-> IF kept.account.exists THEN kept.account
                                   ELSE TradeTable(AccountColumns, {}),
                     positions |-> IF kept.positions.exists THEN kept.positions
                                   ELSE TradeTable(PositionColumns, {}),
                     orders    |-> IF kept.orders.exists THEN kept.orders
                                   ELSE TradeTable(OrderColumns, <<>>)]
        migrated == _ensure_trade_schema(created)
        listed   == {users[j] : j \in DOMAIN users}
        cleared  == [migrated.account EXCEPT !.rows = {a \in @ : a.user_id \notin listed}]
    IN  [migrated EXCEPT !.account = InsertAccounts(cleared, users, initial_capital)]

DefaultUsers == <<"user1", "user2">>

init_trade_system(T, initial_capital, users, reset) ==
    LET kept     == IF reset
                    THEN [account |-> NoTable({}), positions |-> NoTable({}),
                          orders |-> NoTable(<<>>)]
                    ELSE T
        created  == [account   |-> IF kept.account.exists THEN kept.account
                                   ELSE TradeTable(AccountColumns, {}),
                     positions |-> IF kept.positions.exists THEN kept.positions
                                   ELSE TradeTable(PositionColumns, {}),
                     orders    |-> IF kept.orders.exists THEN kept.orders
                                   ELSE TradeTable(OrderColumns, <<>>)]
        migrated == _ensure_trade_schema(created)
    IN  [migrated EXCEPT !.account = InsertAccounts(migrated.account, users, initial_capital)]

\* the arguments as execute_trade normalises them
NormalArgs(args) ==
    [user_id  |-> args.user_id,
     action   |-> Strip(Upper(args.action)),
     code     |-> _normalize_code(args.code),
     name     |-> args.name,
     price    |-> args.price,
     quantity |-> args.quantity]

Rejected(T, msg) == [tables |-> T, ok |-> FALSE, msg |-> msg]

\* the argument checks and SELECT cash FROM trade_account: the message of the
\* early return, "raised", or "ok" with the cash read
CashStep(account, a) ==
    IF a.action \notin {BUY, SELL} THEN [msg |-> "invalid_action", current_cash |-> 0]
    ELSE IF a.code = <<>> THEN [msg |-> "invalid_code", current_cash |-> 0]
    ELSE IF a.quantity <= 0 THEN [msg |-> "invalid_quantity", current_cash |-> 0]
    ELSE IF a.price <= 0 THEN [msg |-> "invalid_price", current_cash |-> 0]
    ELSE IF ~Usable(account, {"user_id", "cash"}) THEN [msg |-> "raised", current_cash |-> 0]
    ELSE IF ~\E r \in account.rows : r.user_id = a.user_id
    THEN [msg |-> "no_account", current_cash |-> 0]
    ELSE [msg |-> "ok",
          current_cash |-> (CHOOSE r \in account.rows : r.user_id = a.user_id).cash]

PositionRows(positions, a) == {r \in positions.rows : r.user_id = a.user_id /\ r.code = a.code}

\* the fees, the cash test of a BUY, SELECT .. FROM trade_positions and the
\* holding test of a SELL: the message of the early return, "raised", or "ok"
\* with the values the writes will use
PositionStep(positions, a, current_cash) ==
    LET amount    == a.price * a.quantity
        fees      == calc_trade_fees(a.action, a.code, a.name, amount)
        cost      == amount + fees.total_fee
        income    == amount - fees.total_fee
        found     == PositionRows(positions, a)
        r         == CHOOSE x \in found : TRUE
        none      == [msg |-> "ok", amount |-> amount, total_fee |-> fees.total_fee,
                      cash_change |-> 0, new_cash |-> current_cash, has_row |-> FALSE,
                      new_q |-> 0, new_avg |-> 0, realized_pnl |-> <<>>]
    IN  IF a.action = BUY
        THEN IF current_cash < cost THEN [none EXCEPT !.msg = "insufficient_cash"]
             ELSE IF ~Usable(positions, {"user_id", "code", "quantity", "avg_cost", "open_time"})
             THEN [none EXCEPT !.msg = "raised"]
             ELSE IF found # {}
             THEN [none EXCEPT !.cash_change = -cost, !.new_cash = current_cash - cost,
                               !.has_row = TRUE, !.new_q = r.quantity + a.quantity,
                               !.new_avg = RoundHalfEven(r.quantity * r.avg_cost + cost * 100,
                                                         r.quantity + a.quantity)]
             ELSE [none EXCEPT !.cash_change = -cost, !.new_cash = current_cash - cost,
                               !.new_q = a.quantity,
                               !.new_avg = RoundHalfEven(cost * 100, a.quantity)]
        ELSE IF ~Usable(positions, {"user_id", "code", "quantity", "avg_cost"})
             THEN [none EXCEPT !.msg = "raised"]
             ELSE IF found = {} \/ r.quantity < a.quantity
             THEN [none EXCEPT !.msg = "insufficient_holding"]
             ELSE [none EXCEPT !.cash_change = income, !.new_cash = current_cash + income,
                               !.has_row = TRUE, !.new_q = r.quantity - a.quantity,
                               !.new_avg = r.avg_cost,
                               !.realized_pnl =
                                   <<RoundHalfEven(income * 100 - r.avg_cost * a.quantity, 100)>>]

\* the uncommitted writes left in place
Rollback_keeping(before, dirty) == dirty

\* conn.rollback(): the tables as they were before the first write
Rollback(before, dirty) == before

\* the position statement of the call: UPDATE or INSERT of a BUY, DELETE or
\* UPDATE of a SELL.  [raised, positions]
WritePosition(positions, a, p) ==
    LET others == positions.rows \ PositionRows(positions, a)
        mine   == PositionRows(positions, a)
    IN  IF a.action = BUY /\ p.has_row
        THEN [raised    |-> ~Usable(positions, {"name", "quantity", "avg_cost", "open_time",
                                                "last_trade_time", "updated_at"}),
              positions |-> [positions EXCEPT
                                !.rows = others \cup {[x EXCEPT !.quantity = p.new_q,
                                                          !.avg_cost = p.new_avg] : x \in mine}]]
        ELSE IF a.action = BUY
        THEN [raised    |-> \/ ~Usable(positions, PositionColumns)
                            \/ PositionRows(positions, a) # {},
              positions |-> [positions EXCEPT
                                !.rows = @ \cup {[user_id |-> a.user_id, code |-> a.code,
                                                  quantity |-> p.new_q,
                                                  avg_cost |-> p.new_avg]}]]
        ELSE IF p.new_q <= 0
        THEN [raised    |-> FALSE,
              positions |-> [positions EXCEPT !.rows = others]]
        ELSE [raised    |-> ~Usable(positions, {"quantity", "last_trade_time", "updated_at"}),
              positions |-> [positions EXCEPT
                                !.rows = others \cup {[x EXCEPT !.quantity = p.new_q] : x \in mine}]]

\* UPDATE trade_account SET cash=?, updated_at=? WHERE user_id=?
WriteAccount(account, a, p) ==
    [raised  |-> ~Usable(account, {"cash", "updated_at", "user_id"}),
     account |-> [account EXCEPT
                    !.rows = {IF r.user_id = a.user_id THEN [r EXCEPT !.cash = p.new_cash]
                              ELSE r : r \in @}]]

\* INSERT INTO trade_orders
WriteOrder(orders, a, p) ==
    [raised |-> ~Usable(orders, OrderColumns \ {"id"}),
     orders |-> [orders EXCEPT
                   !.rows = Append(@, [user_id |-> a.user_id, code |-> a.code,
                                       action |-> a.action, price |-> a.price,
                                       quantity |-> a.quantity, amount |-> p.amount,
                                       total_fee |-> p.total_fee,
                                       cash_change |-> p.cash_change,
                                       realized_pnl |-> p.realized_pnl,
                                       balance_after |-> p.new_cash])]]

\* the three writes and the commit; a statement that raises ends the call in
\* the except branch
WriteStep(T, a, p) ==
    LET w1 == WritePosition(T.positions, a, p)
        w2 == WriteAccount(T.account, a, p)
        w3 == WriteOrder(T.orders, a, p)
        d1 == [T EXCEPT !.positions = w1.positions]
        d2 == [d1 EXCEPT !.account = w2.account]
        d3 == [d2 EXCEPT !.orders = w3.orders]
    IN  IF w1.raised THEN Rejected(Rollback(T, T), "raised")
        ELSE IF w2.raised THEN Rejected(Rollback(T, d1), "raised")
        ELSE IF w3.raised THEN Rejected(Rollback(T, d2), "raised")
        ELSE [tables |-> d3, ok |-> TRUE, msg |-> "done"]

\* one call of execute_trade with no other call between its statements
execute_trade(T, args) ==
    LET a  == NormalArgs(args)
        c1 == CashStep(T.account, a)
    IN  IF c1.msg # "ok" THEN Rejected(T, c1.msg)
        ELSE LET p == PositionStep(T.positions, a, c1.current_cash)
             IN  IF p.msg # "ok" THEN Rejected(T, p.msg)
                 ELSE WriteStep(T, a, p)

Tables == [account |-> trade_account, positions |-> trade_positions, orders |-> trade_orders]

NoResult == [op |-> "none"]

Calls == {1, 2}

IdleSession == [pc |-> "idle"]

TradeIdle ==
    /\ trade_account = NoTable({})
    /\ trade_positions = NoTable({})
    /\ trade_orders = NoTable(<<>>)
    /\ trade_result = NoResult
    /\ session = [c \in Calls |-> IdleSession]

SchedulerIdle == scheduler = [pc |-> "off"]

(***************************************************************************)
(* Bounds of the model                                                     *)
(***************************************************************************)
\* close prices are 1..MaxClose
MaxClose == 2

\* the targeted path is given lists of 0..MaxCodes raw values
MaxCodes == 4

\* an instrument has up to MaxBars bars in the window
MaxBars == 22

\* names are texts over NameChars of length 0..MaxNameLen
MaxNameLen == 2

\* at most MaxRows rows in the time-series tables of a store taken together
MaxRows == 5

\* at most MaxOrders orders are recorded in trade_orders
MaxOrders == 2

\* the scheduler is followed over the days 0..MaxDays
MaxDays == 1

(***************************************************************************)
(* Inputs of the classifier taken alone                                    *)
(***************************************************************************)
NameChars == {"S", "T", "s"}

TextsUpTo(chars, n) == UNION {[1..k -> chars] : k \in 0..n}

Names == TextsUpTo(NameChars, MaxNameLen)

TotalMvVals == {NaN, Num(-1), Num(0), Num(1), Num(MicroCapThreshold - 1),
                Num(MicroCapThreshold), Num(MicroCapThreshold + 1)}

FlowVals == {-1, 0, 1}

SurgeVals == {Rat(-1, 100), Rat(-4, 1000), Rat(-3, 1000), Rat(0, 1), Rat(1, 100)}

ClassifierRows ==
    [close : 1..MaxClose,
     close_20d_avg : {Rat(n, 1) : n \in 1..MaxClose},
     net_financing_buy : FlowVals,
     nb_inflow : FlowVals,
     financing_surge_pct : SurgeVals]

ClassifierInfos == [name : Names, total_mv : TotalMvVals]

Labels == {"blacklist_ST", "blacklist_microcap", "strong_buy", "watch", "stop_loss",
           "capital_flight", "uptrend", "neutral"}

(***************************************************************************)
(* Store: tables                                                           *)
(***************************************************************************)
EmptyTable == [exists |-> TRUE, rows |-> {}]

MissingTable == [exists |-> FALSE, rows |-> {}]

Table(rws) == [exists |-> TRUE, rows |-> rws]

CodeA == <<"6", "0", "0", "0", "0", "0">>

CodeB == <<"0", "0", "0", "0", "0", "1">>

\* D2 - 60 days = D1, so D1 is the first day of the window that ends on D2
\* and lies before the window that ends on D3
D1 == <<2025, 3, 1>>

D2 == <<2025, 4, 30>>

D3 == <<2025, 5, 1>>

Dates == {D1, D2, D3}

DailyRowsets ==
    {{[code |-> CodeA, trade_date |-> d, close |-> f[d]] : d \in {e \in Dates : f[e] > 0}}
        \cup (IF b THEN {[code |-> CodeB, trade_date |-> D3, close |-> 1]} ELSE {}) :
     f \in [Dates -> 0..MaxClose], b \in BOOLEAN}

MarginVals ==
    <<[financing_balance |-> 300000000, net_financing_buy |-> -4000000],
      [financing_balance |-> 500000000, net_financing_buy |-> 5000000]>>

MarginRowsets ==
    {{[code |-> CodeA, trade_date |-> d,
       financing_balance |-> MarginVals[f[d]].financing_balance,
       net_financing_buy |-> MarginVals[f[d]].net_financing_buy] : d \in {e \in Dates : f[e] > 0}}
        \cup (IF b THEN {[code |-> CodeB, trade_date |-> D2,
                          financing_balance |-> 500000000,
                          net_financing_buy |-> 5000000]} ELSE {}) :
     f \in [Dates -> 0..Len(MarginVals)], b \in BOOLEAN}

\* holdings are entered in hundred millions
HoldUnit == 10000 * 10000

NbRowsets ==
    {{[code |-> CodeA, trade_date |-> d, net_inflow |-> f[d] * HoldUnit] :
        d \in {e \in {D2, D3} : f[e] > 0}} :
     f \in [{D2, D3} -> 0..2]}

MainRowsets ==
    {{}, {[code |-> CodeA, trade_date |-> D3, main_net_inflow |-> 70000]}}

FloatMvNormal == 10 * HoldUnit

BasicRow(c, nm, tmv, fmv) == [code |-> c, name |-> nm, total_mv |-> tmv, float_mv |-> fmv]

NormalBasic ==
    Table({BasicRow(CodeA, <<"s">>, Num(MicroCapThreshold), Num(FloatMvNormal)),
           BasicRow(CodeB, <<"T">>, Num(MicroCapThreshold), Num(FloatMvNormal))})

BasicNames == {<<"s">>, <<"S", "T">>}

BasicTotalMvVals == {NaN, Num(0), Num(-MicroCapThreshold), Num(1500000000), Num(MicroCapThreshold)}

BasicFloatMvVals == {NaN, Num(0), Num(-FloatMvNormal), Num(FloatMvNormal)}

BasicTables ==
    {MissingTable, EmptyTable}
    \cup {Table({BasicRow(CodeA, nm, tmv, fmv)}) :
            nm \in BasicNames, tmv \in BasicTotalMvVals, fmv \in BasicFloatMvVals}

OrMissing(rowsets) == {Table(rws) : rws \in rowsets} \cup {MissingTable}

SeriesRowCount ==
    Cardinality(daily_market.rows) + Cardinality(margin_data.rows)
        + Cardinality(northbound_data.rows) + Cardinality(main_fund_flow.rows)

\* the time series of the stores whose reference table varies
ScenarioDaily ==
    {{[code |-> CodeA, trade_date |-> D3, close |-> 1]},
     {[code |-> CodeA, trade_date |-> D2, close |-> 1],
      [code |-> CodeA, trade_date |-> D3, close |-> 2]},
     {[code |-> CodeA, trade_date |-> D2, close |-> 2],
      [code |-> CodeA, trade_date |-> D3, close |-> 1]}}

ScenarioMargin ==
    {{[code |-> CodeA, trade_date |-> D2,
       financing_balance |-> MarginVals[j].financing_balance,
       net_financing_buy |-> MarginVals[j].net_financing_buy]} : j \in DOMAIN MarginVals}

ScenarioNb ==
    {{[code |-> CodeA, trade_date |-> D2, net_inflow |-> HoldUnit],
      [code |-> CodeA, trade_date |-> D3, net_inflow |-> 2 * HoldUnit]}}

NoOutput == [called |-> FALSE]

DB == [daily_market |-> daily_market, margin_data |-> margin_data,
       northbound_data |-> northbound_data, main_fund_flow |-> main_fund_flow,
       stock_basic |-> stock_basic]

(***************************************************************************)
(* Specification of the two report paths over a store                      *)
(***************************************************************************)
\* no bulk call is in progress
IdleCall ==
    [pc |-> "idle", basic_df |-> {}, end_date_str |-> None, daily_df |-> {},
     margin_df |-> {}, main_df |-> {}, nb_df |-> {}, seen |-> {}]

CodesIdle == raw_codes = <<>> /\ cleaned_codes = <<>>

StepsIdle == call = IdleCall /\ indicators = NoOutput

ClassifierIdle ==
    /\ row = [close |-> 1, close_20d_avg |-> Rat(1, 1), net_financing_buy |-> 0,
              nb_inflow |-> 0, financing_surge_pct |-> RatZero]
    /\ info = [name |-> <<>>, total_mv |-> NaN]
    /\ signal = "pending"

InitSeriesStores ==
    /\ stock_basic = NormalBasic
    /\ daily_market \in OrMissing(DailyRowsets)
    /\ margin_data \in OrMissing(MarginRowsets)
    /\ northbound_data \in OrMissing(NbRowsets)
    /\ main_fund_flow = MissingTable
    /\ SeriesRowCount <= MaxRows

InitBasicStores ==
    /\ stock_basic \in BasicTables
    /\ daily_market \in {Table(rws) : rws \in ScenarioDaily}
    /\ margin_data \in {Table(rws) : rws \in ScenarioMargin}
    /\ northbound_data \in {Table(rws) : rws \in ScenarioNb}
    /\ main_fund_flow \in OrMissing(MainRowsets)

Init ==
    /\ TradeIdle
    /\ SchedulerIdle
    /\ ClassifierIdle
    /\ CodesIdle
    /\ StepsIdle
    /\ InitSeriesStores \/ InitBasicStores
    /\ report = NoOutput
    /\ signals = NoOutput
    /\ fresh = NoOutput

\* the code lists the targeted path is called with
CodeLists ==
    {<<>>,
     <<Raw(CodeA)>>,
     <<Raw(<<" ", "1">>), NoneCode, Raw(CodeA), Raw(CodeA)>>}

\* the bulk call creating the flow table it does not find
RunBulk_creating ==
    /\ report' = get_full_analysis_report(DB)
    /\ main_fund_flow' = IF main_fund_flow.exists THEN main_fund_flow ELSE EmptyTable
    /\ UNCHANGED <<daily_market, margin_data, northbound_data, stock_basic>>
    /\ UNCHANGED <<signals, fresh>>
    /\ UNCHANGED classifyVars
    /\ UNCHANGED <<tradeVars, scheduler>>
    /\ UNCHANGED codeVars
    /\ UNCHANGED stepVars

RunBulk ==
    /\ report' = get_full_analysis_report(DB)
    /\ UNCHANGED <<signals, fresh>>
    /\ UNCHANGED storeVars
    /\ UNCHANGED classifyVars
    /\ UNCHANGED <<tradeVars, scheduler>>
    /\ UNCHANGED codeVars
    /\ UNCHANGED stepVars

RunTargeted ==
    /\ \E codes \in CodeLists :
          signals' = get_signals_for_codes(DB, codes, LookbackDefault)
    /\ UNCHANGED <<report, fresh>>
    /\ UNCHANGED storeVars
    /\ UNCHANGED classifyVars
    /\ UNCHANGED <<tradeVars, scheduler>>
    /\ UNCHANGED codeVars
    /\ UNCHANGED stepVars

Next == RunBulk \/ RunTargeted

Spec == Init /\ [][Next]_vars

(***************************************************************************)
(* Specification of the freshness resolver over the core tables            *)
(***************************************************************************)
DateSubsets == SUBSET Dates \ {{}}

FreshDaily == {{[code |-> CodeA, trade_date |-> d, close |-> 1] : d \in S} : S \in DateSubsets}

FreshMargin ==
    {{[code |-> CodeA, trade_date |-> d, financing_balance |-> 300000000,
       net_financing_buy |-> -4000000] : d \in S} : S \in DateSubsets}

FreshNb == {{[code |-> CodeA, trade_date |-> d, net_inflow |-> HoldUnit] : d \in S} : S \in DateSubsets}

FreshMain == {{[code |-> CodeA, trade_date |-> d, main_net_inflow |-> 70000] : d \in S} : S \in DateSubsets}

InitFresh ==
    /\ TradeIdle
    /\ SchedulerIdle
    /\ ClassifierIdle
    /\ CodesIdle
    /\ StepsIdle
    /\ stock_basic = NormalBasic
    /\ daily_market \in OrMissing(FreshDaily \cup {{}})
    /\ margin_data \in OrMissing(FreshMargin \cup {{}})
    /\ northbound_data \in OrMissing(FreshNb \cup {{}})
    /\ main_fund_flow \in OrMissing(FreshMain \cup {{}})
    /\ report = NoOutput
    /\ signals = NoOutput
    /\ fresh = NoOutput

GetLatestCommonTradeDate ==
    /\ fresh' = [called |-> TRUE, op |-> "get_latest_common_trade_date",
                 value |-> get_latest_common_trade_date(DB)]
    /\ UNCHANGED <<report, signals>>
    /\ UNCHANGED storeVars
    /\ UNCHANGED classifyVars
    /\ UNCHANGED <<tradeVars, scheduler>>
    /\ UNCHANGED codeVars
    /\ UNCHANGED stepVars

GetTableMaxDates ==
    /\ fresh' = [called |-> TRUE, op |-> "get_table_max_dates",
                 value |-> get_table_max_dates(DB)]
    /\ UNCHANGED <<report, signals>>
    /\ UNCHANGED storeVars
    /\ UNCHANGED classifyVars
    /\ UNCHANGED <<tradeVars, scheduler>>
    /\ UNCHANGED codeVars
    /\ UNCHANGED stepVars

\* the four operations of the analysis core on one store
NextFresh == GetLatestCommonTradeDate \/ GetTableMaxDates \/ RunBulk \/ RunTargeted

SpecFresh == InitFresh /\ [][NextFresh]_vars

(***************************************************************************)
(* Specification of the classifier as a function of its inputs             *)
(***************************************************************************)
InitClassify ==
    /\ TradeIdle
    /\ SchedulerIdle
    /\ row \in ClassifierRows
    /\ CodesIdle
    /\ StepsIdle
    /\ info \in ClassifierInfos
    /\ signal = "pending"
    /\ daily_market = EmptyTable
    /\ margin_data = EmptyTable
    /\ northbound_data = EmptyTable
    /\ main_fund_flow = EmptyTable
    /\ stock_basic = EmptyTable
    /\ report = NoOutput
    /\ signals = NoOutput
    /\ fresh = NoOutput

Classify ==
    /\ signal = "pending"
    /\ signal' = generate_signals_row(row, info)
    /\ UNCHANGED <<row, info>>
    /\ UNCHANGED <<tradeVars, scheduler>>
    /\ UNCHANGED storeVars
    /\ UNCHANGED outVars
    /\ UNCHANGED codeVars
    /\ UNCHANGED stepVars

NextClassify == Classify

SpecClassify == InitClassify /\ [][NextClassify]_vars

Classified == signal # "pending"

Blacklisted(i) == ContainsST(i.name) \/ (GtZero(i.total_mv) /\ i.total_mv[1] < MicroCapThreshold)

\* the label of the first rule, in the order 1..6, whose condition holds
FirstMatch(r) ==
    LET conds == <<Rule1(r), Rule2(r), Rule3(r), Rule4(r), Rule5(r), TRUE>>
        names == <<"strong_buy", "watch", "stop_loss", "capital_flight", "uptrend", "neutral">>
        k == CHOOSE j \in 1..6 : conds[j] /\ \A m \in 1..(j - 1) : ~conds[m]
    IN  names[k]

\* C1: for a non-blacklisted input the classifier returns the label of the
\* first rule, in the fixed order 1..6, whose condition holds.
C1_FirstMatchInOrder ==
    (Classified /\ ~Blacklisted(info)) => signal = FirstMatch(row)

\* a row on which the order matters: rules 2 and 3 both hold, and rule 4 too
C1_Witness ==
    /\ Classified /\ ~Blacklisted(info)
    /\ Rule2(row) /\ Rule3(row) /\ Rule4(row)
    /\ signal = "watch"

\* C2: classification is total: every input gets exactly one label of the
\* fixed label set.
C2_Total == Classified => signal \in Labels

C2_Witness ==
    /\ Classified /\ ~Blacklisted(info)
    /\ ~Rule1(row) /\ ~Rule2(row) /\ ~Rule3(row) /\ ~Rule4(row) /\ ~Rule5(row)
    /\ signal = "neutral"

TrueCount(bs) == Cardinality({j \in DOMAIN bs : bs[j]})

\* C3 as stated: at most one of the conditions of rules 1, 2 and 3 holds.
C3_Original ==
    Classified => TrueCount(<<Rule1(row), Rule2(row), Rule3(row)>>) <= 1

\* C3 amended: rule 1 excludes rules 2 and 3; rules 2 and 3 hold together
\* exactly when close < MA20 and one of the two flows is positive while the
\* other is negative, and then the classifier answers with rule 2.
C3_Amended ==
    (Classified /\ ~Blacklisted(info)) =>
        /\ ~(Rule1(row) /\ (Rule2(row) \/ Rule3(row)))
        /\ (Rule2(row) /\ Rule3(row)) <=>
              /\ IntLtRat(row.close, row.close_20d_avg)
              /\ \/ (row.net_financing_buy > 0 /\ row.nb_inflow < 0)
                 \/ (row.net_financing_buy < 0 /\ row.nb_inflow > 0)
        /\ (Rule2(row) /\ Rule3(row)) => signal = "watch"

C3_Witness ==
    /\ Classified /\ ~Blacklisted(info)
    /\ Rule2(row) /\ Rule3(row)
    /\ signal = "watch"

BelowMaNegativeFinancing(r) ==
    /\ IntLtRat(r.close, r.close_20d_avg)
    /\ r.net_financing_buy < 0
    /\ r.financing_surge_pct.num < 0

\* C4 as stated: below MA20 with a negative financing surge, the label is
\* stop-loss whatever the foreign inflow.
C4_Original ==
    (Classified /\ ~Blacklisted(info) /\ BelowMaNegativeFinancing(row)) => signal = "stop_loss"

\* C4 amended: below MA20 with a negative financing surge, the label is
\* stop-loss when the foreign inflow is not positive and watch when it is
\* positive; it is never the capital-flight label of rule 4.
C4_Amended ==
    (Classified /\ ~Blacklisted(info) /\ BelowMaNegativeFinancing(row)) =>
        signal = (IF row.nb_inflow > 0 THEN "watch" ELSE "stop_loss")

C4_Witness ==
    /\ Classified /\ ~Blacklisted(info) /\ BelowMaNegativeFinancing(row)
    /\ Rule4(row) /\ row.nb_inflow = 0
    /\ signal = "stop_loss"

\* C5: an instrument is blacklisted exactly when its name contains ST or
\* 0 < total_mv < 2,000,000,000; a blacklisted instrument gets a blacklist
\* label whatever the row holds, and no other instrument gets one.
C5_Blacklist ==
    Classified =>
        /\ check_fundamentals(info).passed <=> ~Blacklisted(info)
        /\ Blacklisted(info) <=> signal \in {"blacklist_ST", "blacklist_microcap"}
        /\ (info.total_mv # NaN /\ (info.total_mv[1] <= 0 \/ info.total_mv[1] = MicroCapThreshold)
              /\ ~ContainsST(info.name)) => signal \notin {"blacklist_ST", "blacklist_microcap"}

C5_Witness ==
    /\ Classified
    /\ info.total_mv = Num(MicroCapThreshold - 1) /\ ~ContainsST(info.name)
    /\ Rule1(row)
    /\ signal = "blacklist_microcap"

(***************************************************************************)
(* Properties of the report paths                                          *)
(***************************************************************************)
BulkDone == report.called /\ ~report.raised

TargetedDone == signals.called /\ ~signals.raised

\* the loaded window, from the store: [latest bar date - 60 days, latest bar date]
WindowEnd == CHOOSE d \in {r.trade_date : r \in daily_market.rows} :
                \A r \in daily_market.rows : DateLeq(r.trade_date, d)

WindowStart == strftime(to_datetime(WindowEnd) - 60)

InWindow(rows, code) ==
    {r \in rows : r.code = code /\ DateLeq(WindowStart, r.trade_date)
                                /\ DateLeq(r.trade_date, WindowEnd)}

LatestByDate(rows) == CHOOSE r \in rows : \A q \in rows : DateLeq(q.trade_date, r.trade_date)

ExpectedFinancing(code) ==
    LET W == InWindow(margin_data.rows, code)
    IN  IF W = {} THEN ZeroFinancing
        ELSE [financing_balance |-> LatestByDate(W).financing_balance,
              net_financing_buy |-> LatestByDate(W).net_financing_buy]

StoredFloatMv(code) == (CHOOSE b \in stock_basic.rows : b.code = code).float_mv

StoredTotalMv(code) == (CHOOSE b \in stock_basic.rows : b.code = code).total_mv

\* C6: in both paths the financing fields of an instrument are those of its
\* margin row of greatest trade_date in the loaded window, whatever the date
\* of its latest bar, and are zero when it has no margin row in the window.
C6_LatestMarginByCode ==
    /\ BulkDone =>
          \A j \in DOMAIN report.rows :
              LET e == ExpectedFinancing(report.rows[j].Code)
              IN  /\ report.rows[j].FinancingBal = Round2(Quot(e.financing_balance, 100000000), 1)
                  /\ report.rows[j].FinancingNet = Round2(Quot(e.net_financing_buy, 10000), 1)
                  /\ report.rows[j].SurgeScore =
                        Round2(GuardedQuot(e.net_financing_buy,
                                           StoredFloatMv(report.rows[j].Code)), 1000)
    /\ TargetedDone =>
          \A j \in DOMAIN signals.rows :
              LET e == ExpectedFinancing(signals.rows[j].Code)
              IN  signals.rows[j].SurgeScore =
                      Round2(GuardedQuot(e.net_financing_buy,
                                         StoredFloatMv(signals.rows[j].Code)), 1000)

\* the instrument has two margin rows, and the later one, which is in the
\* window, is older than the instrument's latest bar
C6_Witness ==
    /\ BulkDone
    /\ \E j \in DOMAIN report.rows :
          LET c == report.rows[j].Code
              W == InWindow(margin_data.rows, c)
              B == InWindow(daily_market.rows, c)
          IN  /\ W # {}
              /\ Cardinality({r \in margin_data.rows : r.code = c}) >= 2
              /\ DateLess(LatestByDate(W).trade_date, LatestByDate(B).trade_date)
              /\ report.rows[j].FinancingNet # 0
              /\ report.rows[j].FinancingBal # 0

\* C7: a code present in the bulk output and in the targeted output computed
\* from the same store has the same Signal and the same Surge Score in both.
C7_CrossConsistency ==
    (BulkDone /\ TargetedDone) =>
        \A i \in DOMAIN report.rows : \A j \in DOMAIN signals.rows :
            report.rows[i].Code = signals.rows[j].Code =>
                /\ report.rows[i].Signal = signals.rows[j].Signal
                /\ report.rows[i].SurgeScore = signals.rows[j].SurgeScore

C7_Witness ==
    /\ BulkDone /\ TargetedDone
    /\ \E i \in DOMAIN report.rows : \E j \in DOMAIN signals.rows :
          /\ report.rows[i].Code = signals.rows[j].Code
          /\ signals.rows[j].Signal = "strong_buy"
          /\ signals.rows[j].SurgeScore # 0

\* C8: with float_mv not strictly positive (or missing) Fin/MV%, NB/MV% and
\* Surge Score are 0, with total_mv not strictly positive Fin/TMV% and
\* NB/TMV% are 0, and every ratio of the output is a number.
C8_GuardedRatios ==
    BulkDone =>
        \A j \in DOMAIN report.rows :
            LET r == report.rows[j]
            IN  /\ ~GtZero(StoredFloatMv(r.Code)) =>
                      (r.FinMV = 0 /\ r.NBMV = 0 /\ r.SurgeScore = 0
                         /\ r.Signal # "capital_flight")
                /\ ~GtZero(StoredTotalMv(r.Code)) => (r.FinTMV = 0 /\ r.NBTMV = 0)
                /\ {r.FinMV, r.NBMV, r.FinTMV, r.NBTMV, r.SurgeScore} \subseteq Int

C8_Witness ==
    /\ BulkDone
    /\ \E j \in DOMAIN report.rows :
          LET r == report.rows[j]
          IN  /\ StoredFloatMv(r.Code) \in {NaN, Num(0), Num(-FloatMvNormal)}
              /\ StoredTotalMv(r.Code) = Num(MicroCapThreshold)
              /\ r.FinancingNet # 0 /\ r.NBInflow # 0
              /\ r.FinMV = 0 /\ r.FinTMV # 0 /\ r.NBTMV # 0

ForeignFields(r) == <<r.Code, r.NorthboundHold, r.NBInflow, r.NBMV, r.NBTMV>>

\* C9 as stated: with the margin table absent the bulk report is still
\* produced, its financing-derived fields are all 0 and its foreign-flow
\* fields are those of the report over the same store with an empty margin
\* table.
C9_MarginAbsentStillReports ==
    (report.called /\ ~margin_data.exists) =>
        /\ ~report.raised
        /\ \A j \in DOMAIN report.rows :
              LET r == report.rows[j]
              IN  r.FinancingBal = 0 /\ r.FinancingNet = 0 /\ r.FinMV = 0
                    /\ r.FinTMV = 0 /\ r.SurgeScore = 0
        /\ LET with == get_full_analysis_report([DB EXCEPT !.margin_data = EmptyTable])
           IN  /\ Len(with.rows) = Len(report.rows)
               /\ \A j \in DOMAIN report.rows :
                     ForeignFields(report.rows[j]) = ForeignFields(with.rows[j])

(***************************************************************************)
(* Properties of the freshness resolver                                    *)
(***************************************************************************)
\* the tables that are present and hold at least one row
Answering == {t \in {daily_market, margin_data, northbound_data, main_fund_flow} :
                 t.exists /\ t.rows # {}}

TableMaxima == {LatestByDate(t.rows).trade_date : t \in Answering}

C11_ShortCircuit ==
    Answering = {} =>
        /\ (fresh.called /\ fresh.op = "get_latest_common_trade_date") => fresh.value = None
        /\ report.called => (~report.raised /\ report.rows = <<>>)
        /\ signals.called => (~signals.raised /\ signals.rows = <<>>)

\* the market table is there and empty, the margin table is not there, and
\* all three operations have answered
C11_Witness ==
    /\ Answering = {}
    /\ daily_market = EmptyTable /\ ~margin_data.exists
    /\ fresh.called /\ fresh.op = "get_latest_common_trade_date" /\ fresh.value = None
    /\ report.called /\ report.rows = <<>>
    /\ signals.called /\ signals.rows = <<>>

DailyUnavailable == ~daily_market.exists \/ daily_market.rows = {}

\* C12: with the market-bar table missing or empty both paths return an
\* empty result without raising, whatever the other tables hold; and a code
\* without a bar in the loaded window has no row in either output.
C12_MarketSpine ==
    /\ (report.called /\ DailyUnavailable) => (~report.raised /\ report.rows = <<>>)
    /\ (signals.called /\ DailyUnavailable) => (~signals.raised /\ signals.rows = <<>>)
    /\ BulkDone =>
          \A j \in DOMAIN report.rows : InWindow(daily_market.rows, report.rows[j].Code) # {}
    /\ TargetedDone =>
          \A j \in DOMAIN signals.rows : InWindow(daily_market.rows, signals.rows[j].Code) # {}

\* no market table and no margin table, while the foreign-holding table and
\* the reference table hold rows
C12_Witness ==
    /\ ~daily_market.exists /\ ~margin_data.exists
    /\ northbound_data.exists /\ northbound_data.rows # {}
    /\ stock_basic.exists /\ stock_basic.rows # {}
    /\ report.called /\ ~report.raised /\ report.rows = <<>>
    /\ signals.called /\ ~signals.raised /\ signals.rows = <<>>

(***************************************************************************)
(* Frame of the analysis core                                              *)
(***************************************************************************)
\* C17: no operation of the analysis core changes the store: every step of
\* get_latest_common_trade_date, get_table_max_dates, get_signals_for_codes
\* and get_full_analysis_report leaves the five tables as they were.
C17_StoreUnchanged == [][storeVars' = storeVars]_vars

\* the resolver, the bulk path and the targeted path have all run on a store
\* whose tables hold rows
C17_Witness ==
    /\ fresh.called /\ report.called /\ signals.called
    /\ Len(report.rows) > 0 /\ Len(signals.rows) > 0
    /\ \A t \in {daily_market, margin_data, northbound_data, main_fund_flow, stock_basic} :
          t.exists /\ t.rows # {}

(***************************************************************************)
(* Specification of the targeted path as a function of its code list      *)
(***************************************************************************)
\* None, blank, a short digit string, a code, a code with a blank after it,
\* a code after letters, a digit string of seven, letters with one digit
RawCodeValues ==
    {NoneCode,
     Raw(<<" ">>),
     Raw(<<"1">>),
     Raw(CodeA),
     Raw(CodeA \o <<" ">>),
     Raw(<<"a", "b", "c">> \o CodeA),
     Raw(<<"1", "2", "3", "4", "5", "6", "7">>),
     Raw(<<"a", "1">>)}

CodeInputs == UNION {[1..k -> RawCodeValues] : k \in 0..MaxCodes}

CodesDaily ==
    {Table({[code |-> CodeA, trade_date |-> D2, close |-> 2],
            [code |-> CodeA, trade_date |-> D3, close |-> 1],
            [code |-> CodeB, trade_date |-> D3, close |-> 1]}),
     Table({[code |-> CodeA, trade_date |-> D1, close |-> 1],
            [code |-> CodeB, trade_date |-> D3, close |-> 1]})}

\* the listing as rebuilt by the loader: both instruments, or CodeA alone while
\* daily_market still holds the bars of CodeB
CodesBasic ==
    {NormalBasic,
     Table({BasicRow(CodeA, <<"s">>, Num(MicroCapThreshold), Num(FloatMvNormal))})}

InitCodes ==
    /\ TradeIdle
    /\ SchedulerIdle
    /\ ClassifierIdle
    /\ StepsIdle
    /\ raw_codes \in CodeInputs
    /\ cleaned_codes = <<>>
    /\ stock_basic \in CodesBasic
    /\ daily_market \in CodesDaily
    /\ margin_data \in {Table(rws) : rws \in ScenarioMargin}
    /\ northbound_data = EmptyTable
    /\ main_fund_flow = MissingTable
    /\ report = NoOutput
    /\ signals = NoOutput
    /\ fresh = NoOutput

\* one call of get_signals_for_codes on the list given; cleaned_codes is the
\* list the function works with after sorted(set(cleaned))
CallTargeted ==
    /\ ~signals.called
    /\ cleaned_codes' = WorkingCodes(raw_codes)
    /\ signals' = get_signals_for_codes(DB, raw_codes, LookbackDefault)
    /\ UNCHANGED <<raw_codes, report, fresh>>
    /\ UNCHANGED storeVars
    /\ UNCHANGED classifyVars
    /\ UNCHANGED <<tradeVars, scheduler>>
    /\ UNCHANGED stepVars

NextCodes == CallTargeted

SpecCodes == InitCodes /\ [][NextCodes]_vars

(***************************************************************************)
(* Properties of the code normalisation                                    *)
(***************************************************************************)
\* ["600000", "600000 ", "abc600000", "1"]
ScenarioCodes ==
    <<Raw(CodeA), Raw(CodeA \o <<" ">>), Raw(<<"a", "b", "c">> \o CodeA), Raw(<<"1">>)>>

\* C13 as stated: the list ["600000", "600000 ", "abc600000", "1"] is
\* normalised to the working set {"600000"}, the string "1" being discarded.
C13_Original ==
    (signals.called /\ raw_codes = ScenarioCodes) => cleaned_codes = <<CodeA>>

\* C13 amended: the list ["600000", "600000 ", "abc600000", "1"] is
\* normalised to the working list ["000001", "600000"]: the duplicate is
\* collapsed, the embedded-digit form is recovered, and the short digit
\* string "1" is padded with zeros to "000001", not discarded.
C13_Amended ==
    signals.called =>
        /\ raw_codes = ScenarioCodes => cleaned_codes = <<CodeB, CodeA>>
        /\ raw_codes = <<Raw(CodeA \o <<" ">>), Raw(CodeA)>> => cleaned_codes = <<CodeA>>
        /\ raw_codes = <<Raw(<<"a", "b", "c">> \o CodeA)>> => cleaned_codes = <<CodeA>>
        /\ raw_codes = <<Raw(<<"1">>)>> => cleaned_codes = <<CodeB>>

C13_Witness ==
    /\ signals.called
    /\ raw_codes = ScenarioCodes
    /\ cleaned_codes = <<CodeB, CodeA>>
    /\ Len(signals.rows) = 2

SixDigits(t) == Len(t) = 6 /\ \A j \in DOMAIN t : t[j] \in Digits

\* C14 as stated: for every input list every code of the working list is a
\* string of exactly 6 digits, whatever does not resolve to 6 digits being
\* dropped, and the call does not raise.
C14_SixDigitCodes ==
    signals.called =>
        /\ ~signals.raised
        /\ \A j \in DOMAIN cleaned_codes : SixDigits(cleaned_codes[j])

\* the codes some value of the list resolves to
ResolvedCodes == UNION {CleanOne(raw_codes[j]) : j \in DOMAIN raw_codes}

Reverse(q) == [j \in 1..Len(q) |-> q[Len(q) + 1 - j]]

\* C15: the rows of the targeted output are in strictly ascending order of
\* code, so no code has two rows; the codes are those some value of the list
\* resolves to that have a reference row and a bar in the window; and the
\* output is the same for the list reversed and repeated.
C15_SortedDistinct ==
    signals.called =>
        /\ \A j \in 1..(Len(signals.rows) - 1) :
              TextLess(signals.rows[j].Code, signals.rows[j + 1].Code)
        /\ {signals.rows[j].Code : j \in DOMAIN signals.rows}
              = {c \in ResolvedCodes :
                    /\ c \in CodesOf(stock_basic.rows)
                    /\ InWindow(daily_market.rows, c) # {}}
        /\ signals = get_signals_for_codes(DB, Reverse(raw_codes) \o raw_codes, LookbackDefault)

\* the list names the greater code first and twice, and the output has both
\* codes in ascending order
C15_Witness ==
    /\ signals.called
    /\ Len(raw_codes) >= 3
    /\ raw_codes[1] = Raw(CodeA) /\ raw_codes[2] = Raw(<<"1">>)
    /\ \E j \in 3..Len(raw_codes) : CleanOne(raw_codes[j]) = {CodeA}
    /\ Len(signals.rows) = 2
    /\ signals.rows[1].Code = CodeB /\ signals.rows[2].Code = CodeA

(***************************************************************************)
(* Specification of one bulk call read by read, with ingestion committing  *)
(* between the reads.  The call holds one connection and issues its        *)
(* SELECTs one after the other outside any transaction that spans them;    *)
(* the loader commits after each instrument (bars) and after each date     *)
(* (margin, foreign holdings).                                             *)
(***************************************************************************)
NewBar == [code |-> CodeA, trade_date |-> D3, close |-> 2]

NewMargin ==
    [code |-> CodeA, trade_date |-> D3,
     financing_balance |-> MarginVals[2].financing_balance,
     net_financing_buy |-> MarginVals[2].net_financing_buy]

NewHolding == [code |-> CodeA, trade_date |-> D3, net_inflow |-> 3 * HoldUnit]

InitSteps ==
    /\ TradeIdle
    /\ SchedulerIdle
    /\ ClassifierIdle
    /\ CodesIdle
    /\ StepsIdle
    /\ stock_basic = NormalBasic
    /\ daily_market = Table({[code |-> CodeA, trade_date |-> D2, close |-> 1]})
    /\ margin_data = Table({[code |-> CodeA, trade_date |-> D2,
                             financing_balance |-> MarginVals[1].financing_balance,
                             net_financing_buy |-> MarginVals[1].net_financing_buy]})
    /\ northbound_data \in {EmptyTable,
                             Table({[code |-> CodeA, trade_date |-> D2, net_inflow |-> HoldUnit]})}
    /\ main_fund_flow \in OrMissing(MainRowsets)
    /\ report = NoOutput
    /\ signals = NoOutput
    /\ fresh = NoOutput

InCall == call.pc \notin {"idle", "done"}

\* the stores that have existed since the call began
Seen(db) == IF InCall THEN call.seen \cup {db} ELSE call.seen

\* INSERT OR REPLACE of the rows, keyed by (code, trade_date)
InsertOrReplace(table, rws) ==
    Table({r \in table.rows :
              \A n \in rws : ~(n.code = r.code /\ n.trade_date = r.trade_date)} \cup rws)

\* download_daily_data: the bars of one instrument, then commit
IngestDaily ==
    /\ NewBar \notin daily_market.rows
    /\ daily_market' = InsertOrReplace(daily_market, {NewBar})
    /\ call' = [call EXCEPT !.seen = Seen([DB EXCEPT !.daily_market = daily_market'])]
    /\ UNCHANGED <<margin_data, northbound_data, main_fund_flow, stock_basic>>
    /\ UNCHANGED <<outVars, indicators>>
    /\ UNCHANGED classifyVars
    /\ UNCHANGED <<tradeVars, scheduler>>
    /\ UNCHANGED codeVars

\* download_sse_margin_data: the margin rows of one date, then commit; the
\* loader has finished the bars before
IngestMargin ==
    /\ NewBar \in daily_market.rows
    /\ NewMargin \notin margin_data.rows
    /\ margin_data' = InsertOrReplace(margin_data, {NewMargin})
    /\ call' = [call EXCEPT !.seen = Seen([DB EXCEPT !.margin_data = margin_data'])]
    /\ UNCHANGED <<daily_market, northbound_data, main_fund_flow, stock_basic>>
    /\ UNCHANGED <<outVars, indicators>>
    /\ UNCHANGED classifyVars
    /\ UNCHANGED <<tradeVars, scheduler>>
    /\ UNCHANGED codeVars

\* download_northbound_data: DELETE the date, insert its rows, then commit;
\* the loader has finished the margin rows before
IngestNorthbound ==
    /\ NewMargin \in margin_data.rows
    /\ NewHolding \notin northbound_data.rows
    /\ northbound_data' =
          InsertOrReplace(Table({r \in northbound_data.rows : r.trade_date # NewHolding.trade_date}),
                          {NewHolding})
    /\ call' = [call EXCEPT !.seen = Seen([DB EXCEPT !.northbound_data = northbound_data'])]
    /\ UNCHANGED <<daily_market, margin_data, main_fund_flow, stock_basic>>
    /\ UNCHANGED <<outVars, indicators>>
    /\ UNCHANGED classifyVars
    /\ UNCHANGED <<tradeVars, scheduler>>
    /\ UNCHANGED codeVars

StepFrame ==
    /\ UNCHANGED storeVars
    /\ UNCHANGED <<signals, fresh, indicators>>
    /\ UNCHANGED classifyVars
    /\ UNCHANGED <<tradeVars, scheduler>>
    /\ UNCHANGED codeVars

\* the call returns (or raises) with the result given
Finish(result) ==
    /\ report' = result
    /\ call' = [call EXCEPT !.pc = "done"]

Goto(next_call) ==
    /\ call' = next_call
    /\ UNCHANGED report

\* conn = get_db_connection()
StartBulk ==
    /\ call.pc \in {"idle", "done"}
    /\ Goto([IdleCall EXCEPT !.pc = "basic", !.seen = {DB}])
    /\ StepFrame

\* SELECT * FROM stock_basic, inside try
ReadBasic ==
    /\ call.pc = "basic"
    /\ IF ReadFails(stock_basic) THEN Finish(EmptyFrame)
       ELSE Goto([call EXCEPT !.pc = "max_date", !.basic_df = stock_basic.rows])
    /\ StepFrame

\* SELECT MAX(trade_date) FROM daily_market, inside try
ReadMaxDate ==
    /\ call.pc = "max_date"
    /\ IF ReadFails(daily_market) THEN Finish(EmptyFrame)
       ELSE IF SelectMaxTradeDate(daily_market) = None THEN Finish(EmptyFrame)
       ELSE Goto([call EXCEPT !.pc = "daily", !.end_date_str = SelectMaxTradeDate(daily_market)])
    /\ StepFrame

StartDateStr == strftime(to_datetime(call.end_date_str[1]) - 60)

\* the window of daily_market, outside try
ReadDaily ==
    /\ call.pc = "daily"
    /\ IF ReadFails(daily_market) THEN Finish(RaisedCall)
       ELSE Goto([call EXCEPT !.pc = "margin",
                              !.daily_df = SelectWindow(daily_market, StartDateStr,
                                                        call.end_date_str[1])])
    /\ StepFrame

\* the window of margin_data, outside try
ReadMargin ==
    /\ call.pc = "margin"
    /\ IF ReadFails(margin_data) THEN Finish(RaisedCall)
       ELSE Goto([call EXCEPT !.pc = "main",
                              !.margin_df = SelectWindow(margin_data, StartDateStr,
                                                         call.end_date_str[1])])
    /\ StepFrame

\* the window of main_fund_flow, inside try
ReadMain ==
    /\ call.pc = "main"
    /\ Goto([call EXCEPT !.pc = "northbound",
                          !.main_df = OptionalRead(main_fund_flow, StartDateStr,
                                                   call.end_date_str[1])])
    /\ StepFrame

\* the window of northbound_data, inside try; the connection is closed and
\* the report is computed from the frames read
ReadNorthbound ==
    /\ call.pc = "northbound"
    /\ LET nb_df == OptionalRead(northbound_data, StartDateStr, call.end_date_str[1])
       IN  /\ report' = BulkCompute(call.basic_df, call.daily_df, call.margin_df,
                                     call.main_df, nb_df)
           /\ call' = [call EXCEPT !.pc = "done", !.nb_df = nb_df]
    /\ StepFrame

NextSteps ==
    \/ StartBulk \/ ReadBasic \/ ReadMaxDate \/ ReadDaily \/ ReadMargin \/ ReadMain
    \/ ReadNorthbound
    \/ IngestDaily \/ IngestMargin \/ IngestNorthbound

SpecSteps == InitSteps /\ [][NextSteps]_vars

(***************************************************************************)
(* Properties of the bulk call under concurrent ingestion                  *)
(***************************************************************************)
\* C18 as stated: the report a bulk call returns is the report of one store
\* that existed between the start and the end of the call.
C18_PointInTime ==
    (call.pc = "done" /\ report.called) =>
        \E db \in call.seen : report = get_full_analysis_report(db)

(***************************************************************************)
(* Specification of the indicator columns over the bars of a window        *)
(***************************************************************************)
\* the trade_date j days before D3
DayBefore(j) == strftime(to_datetime(D3) - j)

\* n bars of CodeA on the n days up to D3, of close 1 but for the p-th, of
\* close 2 (p = 0: none)
BarsUpToD3(n, p) ==
    {[code |-> CodeA, trade_date |-> DayBefore(n - j), close |-> IF j = p THEN 2 ELSE 1] :
        j \in 1..n}

\* a bar of CodeA on D1, 61 days before D3, and a bar of CodeB on D3
OldBar == [code |-> CodeA, trade_date |-> D1, close |-> 2]

OtherBar == [code |-> CodeB, trade_date |-> D3, close |-> 2]

InitIndicators ==
    /\ TradeIdle
    /\ SchedulerIdle
    /\ ClassifierIdle
    /\ CodesIdle
    /\ StepsIdle
    /\ stock_basic = NormalBasic
    /\ \E n \in 1..MaxBars : \E p \in 0..n : \E extra \in SUBSET {OldBar, OtherBar} :
          daily_market = Table(BarsUpToD3(n, p) \cup extra)
    /\ margin_data = EmptyTable
    /\ northbound_data = EmptyTable
    /\ main_fund_flow = MissingTable
    /\ report = NoOutput
    /\ signals = NoOutput
    /\ fresh = NoOutput

\* the steps of the bulk path from the read of the window to the two columns
ComputeIndicators ==
    /\ ~indicators.called
    /\ LET end_date_str   == SelectMaxTradeDate(daily_market)[1]
           start_date_str == strftime(to_datetime(end_date_str) - 60)
       IN  indicators' =
              [called |-> TRUE,
               frame  |-> IndicatorColumns(SelectWindow(daily_market, start_date_str,
                                                        end_date_str))]
    /\ UNCHANGED call
    /\ UNCHANGED storeVars
    /\ UNCHANGED outVars
    /\ UNCHANGED classifyVars
    /\ UNCHANGED <<tradeVars, scheduler>>
    /\ UNCHANGED codeVars

NextIndicators == ComputeIndicators

SpecIndicators == InitIndicators /\ [][NextIndicators]_vars

(***************************************************************************)
(* Properties of the indicator columns                                     *)
(***************************************************************************)
RECURSIVE ClosesFrom(_, _, _)
ClosesFrom(col, i, k) == IF i > k THEN 0 ELSE col[i].close + ClosesFrom(col, i + 1, k)

\* C19: for every instrument its bars of the window stand in ascending date
\* order, the moving average at the k-th bar is the mean of the closes of the
\* bars max(1, k-19)..k, and the moving average at the first bar of the
\* window is that bar's close.
C19_MovingAverage ==
    indicators.called =>
        \A c \in DOMAIN indicators.frame :
            LET col == indicators.frame[c]
            IN  /\ Len(col) = Cardinality(InWindow(daily_market.rows, c))
                /\ {col[k].trade_date : k \in DOMAIN col}
                      = {r.trade_date : r \in InWindow(daily_market.rows, c)}
                /\ \A k \in 1..(Len(col) - 1) : DateLess(col[k].trade_date, col[k + 1].trade_date)
                /\ col[1].close_20d_avg = Rat(col[1].close, 1)
                /\ \A k \in DOMAIN col :
                      LET lo == IF k - 19 > 1 THEN k - 19 ELSE 1
                      IN  col[k].close_20d_avg.num * (k - lo + 1)
                            = col[k].close_20d_avg.den * ClosesFrom(col, lo, k)

\* more than 20 bars in the window, the first of them of close 2 and so out
\* of the average of the 21st, and an older bar of close 2 outside the window
C19_Witness ==
    /\ indicators.called
    /\ OldBar \in daily_market.rows
    /\ CodeA \in DOMAIN indicators.frame
    /\ Len(indicators.frame[CodeA]) >= 21
    /\ indicators.frame[CodeA][1].close = 2
    /\ indicators.frame[CodeA][1].close_20d_avg = Rat(2, 1)
    /\ indicators.frame[CodeA][20].close_20d_avg = Rat(21, 20)
    /\ indicators.frame[CodeA][21].close_20d_avg = Rat(1, 1)

(***************************************************************************)
(* Properties of the percent change in the bulk report                     *)
(***************************************************************************)
\* the percent change of the latest bar of a code, from the store: NaN with
\* one bar in the window
ExpectedChg(code) ==
    LET B == InWindow(daily_market.rows, code)
    IN  IF Cardinality(B) = 1 THEN NaN
        ELSE LET last == LatestByDate(B)
                 prev == LatestByDate(B \ {last})
             IN  <<Round2(Quot((last.close - prev.close) * 100, prev.close), 1)>>

\* C20 as stated: for an instrument with exactly one bar in the window the
\* Chg% of the bulk report is 0.
C20_Original ==
    BulkDone =>
        \A j \in DOMAIN report.rows :
            Cardinality(InWindow(daily_market.rows, report.rows[j].Code)) = 1
                => report.rows[j].Chg = <<0>>

\* C20 amended: for an instrument with exactly one bar in the window the Chg%
\* of the bulk report is NaN (undefined, not zero); with more bars it is the
\* percent change of the latest close against the close before it, rounded
\* to two places.
C20_Amended ==
    BulkDone =>
        \A j \in DOMAIN report.rows : report.rows[j].Chg = ExpectedChg(report.rows[j].Code)

\* one bar in the window and an older bar of the same code before the window
C20_Witness ==
    /\ BulkDone
    /\ \E j \in DOMAIN report.rows :
          LET c == report.rows[j].Code
          IN  /\ Cardinality(InWindow(daily_market.rows, c)) = 1
              /\ Cardinality({r \in daily_market.rows : r.code = c}) = 2
              /\ report.rows[j].Chg = NaN

(***************************************************************************)
(* Specification of the two paths over stores that vary the holdings, the  *)
(* net financing and the float market value of one instrument             *)
(***************************************************************************)
FlowDates == {D1, DayBefore(2), DayBefore(1), D3}

FlowDaily ==
    {[code |-> CodeA, trade_date |-> DayBefore(1), close |-> 1],
     [code |-> CodeA, trade_date |-> D3, close |-> 2],
     [code |-> CodeB, trade_date |-> D3, close |-> 1]}

FlowNetVals == {-4000000, 500000, 5000000}

FlowMargin ==
    {{[code |-> CodeA, trade_date |-> DayBefore(1),
       financing_balance |-> 300000000, net_financing_buy |-> v]} : v \in FlowNetVals}

\* holdings of CodeA on any of the four dates, of 1..3 units
FlowNb ==
    {{[code |-> CodeA, trade_date |-> d, net_inflow |-> f[d] * HoldUnit] :
        d \in {e \in FlowDates : f[e] > 0}} : f \in [FlowDates -> 0..3]}

FlowFloatMvVals == {NaN, Num(0), Num(FloatMvNormal), Num(750000000)}

FlowBasic ==
    {Table({BasicRow(CodeA, <<"s">>, Num(MicroCapThreshold), fmv),
            BasicRow(CodeB, <<"T">>, Num(MicroCapThreshold), Num(FloatMvNormal))}) :
        fmv \in FlowFloatMvVals}

InitFlows ==
    /\ TradeIdle
    /\ SchedulerIdle
    /\ ClassifierIdle
    /\ CodesIdle
    /\ StepsIdle
    /\ stock_basic \in FlowBasic
    /\ daily_market = Table(FlowDaily)
    /\ margin_data \in {Table(rws) : rws \in FlowMargin}
    /\ northbound_data \in {Table(rws) : rws \in FlowNb}
    /\ main_fund_flow = MissingTable
    /\ report = NoOutput
    /\ signals = NoOutput
    /\ fresh = NoOutput

SpecFlows == InitFlows /\ [][Next]_vars

(***************************************************************************)
(* Properties of the foreign inflow and of the surge score                 *)
(***************************************************************************)
\* latest holding minus the holding before it, of the code's rows in the
\* window; 0 with one row or none
ExpectedNbInflow(code) ==
    LET W == InWindow(northbound_data.rows, code)
    IN  IF Cardinality(W) <= 1 THEN 0
        ELSE LET last == LatestByDate(W)
                 prev == LatestByDate(W \ {last})
             IN  last.net_inflow - prev.net_inflow

\* C21: the foreign inflow of a code is its latest holding minus the holding
\* immediately before it by date, among its rows in the loaded window, and 0
\* when it has one such row or none: NB Inflow of the bulk report is that
\* difference in units of 10,000, and the targeted path classifies with it.
C21_ForeignInflow ==
    /\ BulkDone =>
          \A j \in DOMAIN report.rows :
              report.rows[j].NBInflow
                  = Round2(Quot(ExpectedNbInflow(report.rows[j].Code), 10000), 1)
    /\ TargetedDone =>
          \A j \in DOMAIN signals.rows :
              signals.rows[j].Signal = "strong_buy"
                  <=> /\ signals.rows[j].Code = CodeA
                      /\ ExpectedFinancing(CodeA).net_financing_buy > 0
                      /\ ExpectedNbInflow(CodeA) > 0

\* three holdings in the window and one before it; the latest is above the one
\* before it and below the first of the window
C21_Witness ==
    /\ BulkDone /\ TargetedDone
    /\ Cardinality(northbound_data.rows) = 4
    /\ \E j \in DOMAIN report.rows :
          /\ report.rows[j].Code = CodeA
          /\ report.rows[j].NBInflow = 1000000
          /\ report.rows[j].NorthboundHold = 200
    /\ \E r \in northbound_data.rows : r.trade_date = DayBefore(2) /\ r.net_inflow = 3 * HoldUnit
    /\ \E j \in DOMAIN signals.rows : signals.rows[j].Signal = "strong_buy"

\* net_financing_buy / float_mv in lowest terms, 0 when float_mv is not above 0
ExpectedSurge(code) ==
    IF GtZero(StoredFloatMv(code))
    THEN Quot(ExpectedFinancing(code).net_financing_buy, StoredFloatMv(code)[1])
    ELSE RatZero

\* the score s, in hundredths, is exactly q * 1000
ExactScore(s, q) == s * q.den = q.num * 100000

\* the score s, in hundredths, is q * 1000 rounded to two places
RoundedScore(s, q) ==
    LET twice == 2 * Abs(s * q.den - q.num * 100000)
    IN  \/ twice < q.den
        \/ twice = q.den /\ s % 2 = 0

\* C22 as stated: in both outputs Surge Score equals financing_surge_pct *
\* 1000, with financing_surge_pct = net_financing_buy / float_mv when
\* float_mv > 0 and 0 otherwise.
C22_Original ==
    /\ BulkDone =>
          \A j \in DOMAIN report.rows :
              ExactScore(report.rows[j].SurgeScore, ExpectedSurge(report.rows[j].Code))
    /\ TargetedDone =>
          \A j \in DOMAIN signals.rows :
              ExactScore(signals.rows[j].SurgeScore, ExpectedSurge(signals.rows[j].Code))

\* C22 amended: in both outputs Surge Score equals financing_surge_pct * 1000
\* rounded to two decimal places (ties to even), with financing_surge_pct =
\* net_financing_buy / float_mv when float_mv > 0 and 0 otherwise.
C22_Amended ==
    /\ BulkDone =>
          \A j \in DOMAIN report.rows :
              RoundedScore(report.rows[j].SurgeScore, ExpectedSurge(report.rows[j].Code))
    /\ TargetedDone =>
          \A j \in DOMAIN signals.rows :
              RoundedScore(signals.rows[j].SurgeScore, ExpectedSurge(signals.rows[j].Code))

\* a quotient with more than two places: 5,000,000 / 750,000,000 * 1000 is
\* 6.666..., reported as 6.67 by both paths
C22_Witness ==
    /\ BulkDone /\ TargetedDone
    /\ StoredFloatMv(CodeA) = Num(750000000)
    /\ ExpectedFinancing(CodeA).net_financing_buy = 5000000
    /\ \E j \in DOMAIN report.rows :
          report.rows[j].Code = CodeA /\ report.rows[j].SurgeScore = 667
    /\ \E j \in DOMAIN signals.rows :
          signals.rows[j].Code = CodeA /\ signals.rows[j].SurgeScore = 667

(***************************************************************************)
(* Shape of the targeted result                                            *)
(***************************************************************************)
\* C23: for every code list and every store, the table returned by
\* get_signals_for_codes has exactly the columns Code, Signal and Surge
\* Score, also when it has no rows.
C23_ReducedShape ==
    signals.called => ~signals.raised /\ signals.columns = ReducedColumns

(***************************************************************************)
(* Labels against the close and its moving average, from the store         *)
(***************************************************************************)
WindowBars(code) == InWindow(daily_market.rows, code)

RECURSIVE SumOfCloses(_)
SumOfCloses(S) ==
    IF S = {} THEN 0
    ELSE LET b == CHOOSE x \in S : TRUE IN b.close + SumOfCloses(S \ {b})

\* the latest close of the code is below the mean of the closes of its bars in
\* the window (fewer than MAWindow bars, so the mean is the moving average)
CloseBelowMa(code) ==
    LET W == WindowBars(code)
    IN  /\ Cardinality(W) < MAWindow
        /\ LatestByDate(W).close * Cardinality(W) < SumOfCloses(W)

\* C26: in both report paths, with financing_surge_pct derived as
\* net_financing_buy / float_mv (0 when float_mv <= 0), no instrument whose
\* close is below MA20 is labelled capital flight: the label is given only
\* with close >= MA20.
C26_FlightNotBelowMa ==
    /\ BulkDone =>
          \A j \in DOMAIN report.rows :
              report.rows[j].Signal = "capital_flight" =>
                  /\ Cardinality(WindowBars(report.rows[j].Code)) < MAWindow
                  /\ ~CloseBelowMa(report.rows[j].Code)
    /\ TargetedDone =>
          \A j \in DOMAIN signals.rows :
              signals.rows[j].Signal = "capital_flight" =>
                  /\ Cardinality(WindowBars(signals.rows[j].Code)) < MAWindow
                  /\ ~CloseBelowMa(signals.rows[j].Code)

\* an instrument labelled capital flight by both paths, its net financing
\* below -0.3% of its float market value
C26_Witness ==
    /\ BulkDone /\ TargetedDone
    /\ \E i \in DOMAIN report.rows : \E j \in DOMAIN signals.rows :
          /\ report.rows[i].Code = signals.rows[j].Code
          /\ report.rows[i].Signal = "capital_flight"
          /\ signals.rows[j].Signal = "capital_flight"
          /\ report.rows[i].SurgeScore < -300

\* C27: an instrument with exactly one bar in the loaded window (MA20 equal
\* to close) is labelled blacklist, capital flight or neutral by either
\* path, never strong buy, watch, stop-loss or uptrend, whatever its flows.
C27_SingleBarLabels ==
    /\ BulkDone =>
          \A j \in DOMAIN report.rows :
              Cardinality(WindowBars(report.rows[j].Code)) = 1 =>
                  report.rows[j].Signal \notin {"strong_buy", "watch", "stop_loss", "uptrend"}
    /\ TargetedDone =>
          \A j \in DOMAIN signals.rows :
              Cardinality(WindowBars(signals.rows[j].Code)) = 1 =>
                  signals.rows[j].Signal \notin {"strong_buy", "watch", "stop_loss", "uptrend"}

\* a single-bar instrument with financing bought on balance, labelled neutral
\* by both paths
C27_Witness ==
    /\ BulkDone /\ TargetedDone
    /\ \E i \in DOMAIN report.rows : \E j \in DOMAIN signals.rows :
          /\ report.rows[i].Code = signals.rows[j].Code
          /\ Cardinality(WindowBars(report.rows[i].Code)) = 1
          /\ ExpectedFinancing(report.rows[i].Code).net_financing_buy > 0
          /\ report.rows[i].Signal = "neutral"
          /\ signals.rows[j].Signal = "neutral"

(***************************************************************************)
(* Specification of the trade system: calls of init_trade_system and of    *)
(* execute_trade one after the other                                       *)
(***************************************************************************)
TradeUsers == {"user1", "ghost"}

TradeActions == {BUY, <<" ", "s", "e", "l", "l">>, <<"h", "o", "l", "d">>}

\* 600000 is a Shanghai stock; "1" with the name "etf" is a Shenzhen fund
TradeInstruments ==
    {[code |-> Raw(CodeA), name |-> <<>>],
     [code |-> Raw(<<"1">>), name |-> <<"e", "t", "f">>],
     [code |-> Raw(<<"x">>), name |-> <<>>]}

\* 0.01 and 20,000.00 yuan
TradePrices == {0, 1, 2000000}

TradeQuantities == {0, 1, 2}

\* 10.00 and 100,000.00 yuan
Capitals == {1000, 10000000}

UserLists == {DefaultUsers, <<"user1">>}

\* tables of an earlier version of the schema, with one account and one holding
LegacyTables ==
    [account   |-> TradeTable(AccountColumns \ {"updated_at"},
                              {[user_id |-> "user1", cash |-> 1000]}),
     positions |-> TradeTable(PositionColumns \ {"open_time", "last_trade_time"},
                              {[user_id |-> "user1", code |-> CodeA, quantity |-> 2,
                                avg_cost |-> 25100]}),
     orders    |-> TradeTable(OrderColumns \ {"stamp_duty", "transfer_fee", "total_fee",
                                               "cash_change", "realized_pnl"}, <<>>)]

NoTables == [account |-> NoTable({}), positions |-> NoTable({}), orders |-> NoTable(<<>>)]

InitTrade ==
    /\ ClassifierIdle
    /\ CodesIdle
    /\ StepsIdle
    /\ SchedulerIdle
    /\ stock_basic = NormalBasic
    /\ daily_market = EmptyTable
    /\ margin_data = EmptyTable
    /\ northbound_data = EmptyTable
    /\ main_fund_flow = MissingTable
    /\ report = NoOutput
    /\ signals = NoOutput
    /\ fresh = NoOutput
    /\ \E T \in {NoTables, LegacyTables} :
          /\ trade_account = T.account
          /\ trade_positions = T.positions
          /\ trade_orders = T.orders
    /\ trade_result = NoResult
    /\ session = [c \in Calls |-> IdleSession]

TradeFrame ==
    /\ UNCHANGED storeVars
    /\ UNCHANGED outVars
    /\ UNCHANGED classifyVars
    /\ UNCHANGED codeVars
    /\ UNCHANGED stepVars
    /\ UNCHANGED scheduler

SetTables(T) ==
    /\ trade_account' = T.account
    /\ trade_positions' = T.positions
    /\ trade_orders' = T.orders

InitTradeSystem ==
    \E initial_capital \in Capitals, users \in UserLists, reset \in BOOLEAN :
        /\ SetTables(init_trade_system(Tables, initial_capital, users, reset))
        /\ trade_result' = [op |-> "init_trade_system", ok |-> TRUE,
                            msg |-> IF reset THEN "reset" ELSE "kept"]
        /\ UNCHANGED session
        /\ TradeFrame

\* the tables and the return value a call of execute_trade leaves
Outcome(res) ==
    /\ SetTables(res.tables)
    /\ trade_result' = [op |-> "execute_trade", ok |-> res.ok, msg |-> res.msg]

ExecuteTrade ==
    \E user_id \in TradeUsers, action \in TradeActions, ins \in TradeInstruments,
       price \in TradePrices, quantity \in TradeQuantities :
        /\ Len(trade_orders.rows) < MaxOrders
        /\ Outcome(execute_trade(Tables, [user_id |-> user_id, action |-> action,
                                          code |-> ins.code, name |-> ins.name,
                                          price |-> price, quantity |-> quantity]))
        /\ UNCHANGED session
        /\ TradeFrame

NextTrade == InitTradeSystem \/ ExecuteTrade

SpecTrade == InitTrade /\ [][NextTrade]_vars

(***************************************************************************)
(* Properties of the trade system                                          *)
(***************************************************************************)
\* C24: a call of init_trade_system with reset=False, at any point of a
\* sequence of trades, leaves every existing account with its cash, every
\* position and every order as they are, keeps the columns the tables have,
\* and only adds tables, columns and accounts that are missing; orders are
\* lost only in a call with reset=True.
C24_InitKeeps ==
    [][/\ (trade_result'.op = "init_trade_system" /\ trade_result'.msg = "kept") =>
             /\ trade_account.rows \subseteq trade_account'.rows
             /\ \A a \in trade_account'.rows \ trade_account.rows :
                    ~\E b \in trade_account.rows : b.user_id = a.user_id
             /\ trade_positions'.rows = trade_positions.rows
             /\ trade_orders'.rows = trade_orders.rows
             /\ trade_account.columns \subseteq trade_account'.columns
             /\ trade_positions.columns \subseteq trade_positions'.columns
             /\ trade_orders.columns \subseteq trade_orders'.columns
             /\ trade_account'.exists /\ trade_positions'.exists /\ trade_orders'.exists
       /\ Len(trade_orders'.rows) < Len(trade_orders.rows) =>
             trade_result'.op = "init_trade_system" /\ trade_result'.msg = "reset"
      ]_vars

\* after some trades, a call with reset=False has returned: an order is on
\* record and an account holds cash that is not an initial capital
C24_Witness ==
    /\ trade_result.op = "init_trade_system" /\ trade_result.msg = "kept"
    /\ Len(trade_orders.rows) >= 1
    /\ trade_positions.rows # {}
    /\ \E a \in trade_account.rows : a.cash \notin Capitals
    /\ \E a \in trade_account.rows : a.user_id = "user2"

\* C28: a call of execute_trade that returns (False, ...) leaves the
\* accounts, the positions and the orders exactly as they were: invalid
\* action, code, quantity or price, no account, insufficient cash or holding,
\* or an exception.
C28_RejectedChangesNothing ==
    [][(trade_result'.op = "execute_trade" /\ ~trade_result'.ok) =>
           tradeTables' = tradeTables]_vars

\* a call has ended in the except branch after its first write, on tables
\* that hold a position
C28_Witness ==
    /\ trade_result.op = "execute_trade" /\ ~trade_result.ok
    /\ trade_result.msg = "raised"
    /\ trade_account.exists /\ "updated_at" \notin trade_account.columns
    /\ trade_positions.rows # {}

\* C29: starting from accounts with non-negative cash, after any sequence of
\* execute_trade calls made one after the other no account has negative cash.
C29_CashNeverNegative ==
    \A a \in trade_account.rows : a.cash >= 0

(***************************************************************************)
(* Specification of concurrent calls of execute_trade for one user, each   *)
(* on a connection of its own: the two reads and the committed writes of a *)
(* call are separate steps, and another call may run between them          *)
(***************************************************************************)
\* user1 with 10.00 yuan and two shares of 600000
SessionTables ==
    [account   |-> TradeTable(AccountColumns, {[user_id |-> "user1", cash |-> 10 * 100]}),
     positions |-> TradeTable(PositionColumns,
                              {[user_id |-> "user1", code |-> CodeA,
                                quantity |-> 2, avg_cost |-> 25100]}),
     orders    |-> TradeTable(OrderColumns, <<>>)]

\* the cash and the holding the calls start from
SessionCash == (CHOOSE a \in SessionTables.account.rows : TRUE).cash

SessionHolding == (CHOOSE r \in SessionTables.positions.rows : TRUE).quantity

\* the trades a call may be asked for, all of user1
SessionTrades ==
    {[user_id |-> "user1", action |-> act, code |-> c, name |-> <<>>,
      price |-> 100, quantity |-> q] :
        act \in {BUY, SELL}, c \in {Raw(CodeA), Raw(<<"1">>)}, q \in {1, 2}}

InitSessions ==
    /\ ClassifierIdle
    /\ CodesIdle
    /\ StepsIdle
    /\ SchedulerIdle
    /\ stock_basic = NormalBasic
    /\ daily_market = EmptyTable
    /\ margin_data = EmptyTable
    /\ northbound_data = EmptyTable
    /\ main_fund_flow = MissingTable
    /\ report = NoOutput
    /\ signals = NoOutput
    /\ fresh = NoOutput
    /\ trade_account = SessionTables.account
    /\ trade_positions = SessionTables.positions
    /\ trade_orders = SessionTables.orders
    /\ trade_result = NoResult
    /\ session = [c \in Calls |-> IdleSession]

Returned(okay, msg) == [pc |-> "done", ok |-> okay, msg |-> msg]

\* the call starts: argument checks and SELECT cash FROM trade_account
SelectCash(c) ==
    /\ session[c].pc = "idle"
    /\ \E args \in SessionTrades :
          LET a  == NormalArgs(args)
              c1 == CashStep(trade_account, a)
          IN  session' = [session EXCEPT ![c] =
                              IF c1.msg # "ok" THEN Returned(FALSE, c1.msg)
                              ELSE [pc |-> "position", a |-> a,
                                    current_cash |-> c1.current_cash]]
    /\ UNCHANGED <<tradeTables, trade_result>>
    /\ TradeFrame

\* the fees, the cash test, SELECT .. FROM trade_positions, the holding test
SelectPosition(c) ==
    /\ session[c].pc = "position"
    /\ LET p == PositionStep(trade_positions, session[c].a, session[c].current_cash)
       IN  session' = [session EXCEPT ![c] =
                           IF p.msg # "ok" THEN Returned(FALSE, p.msg)
                           ELSE [pc |-> "write", a |-> session[c].a, p |-> p]]
    /\ UNCHANGED <<tradeTables, trade_result>>
    /\ TradeFrame

\* the writes of the call and conn.commit(), seen by the other call all at
\* once or not at all
WriteAndCommit(c) ==
    /\ session[c].pc = "write"
    /\ LET res == WriteStep(Tables, session[c].a, session[c].p)
       IN  /\ SetTables(res.tables)
           /\ session' = [session EXCEPT ![c] = Returned(res.ok, res.msg)]
    /\ UNCHANGED trade_result
    /\ TradeFrame

NextSessions == \E c \in Calls : SelectCash(c) \/ SelectPosition(c) \/ WriteAndCommit(c)

SpecSessions == InitSessions /\ [][NextSessions]_vars

RECURSIVE SumCashChange(_)
SumCashChange(orders) ==
    IF orders = <<>> THEN 0 ELSE Head(orders).cash_change + SumCashChange(Tail(orders))

RECURSIVE SoldOf(_, _)
SoldOf(orders, code) ==
    IF orders = <<>> THEN 0
    ELSE (IF Head(orders).code # code THEN 0
          ELSE IF Head(orders).action = SELL THEN Head(orders).quantity
          ELSE -Head(orders).quantity)
         + SoldOf(Tail(orders), code)

\* balance_after of every order is the cash after it when the orders are
\* taken one after the other in the order given
RECURSIVE RunningBalance(_, _)
RunningBalance(orders, cash) ==
    \/ orders = <<>>
    \/ /\ Head(orders).balance_after = cash + Head(orders).cash_change
       /\ RunningBalance(Tail(orders), cash + Head(orders).cash_change)

AllReturned == \A c \in Calls : session[c].pc = "done"

\* C30: concurrent calls of execute_trade for one user are serializable:
\* once they have returned, the cash is the initial cash plus the cash_change
\* of the recorded orders, the balance_after of the orders are the balances
\* of the orders taken one after the other in some order, and no more was
\* sold of a code than was held and bought.
C30_Serializable ==
    AllReturned =>
        LET orders == trade_orders.rows
        IN  /\ \A a \in trade_account.rows :
                  a.cash = SessionCash + SumCashChange(orders)
            /\ \/ RunningBalance(orders, SessionCash)
               \/ Len(orders) = 2 /\ RunningBalance(<<orders[2], orders[1]>>, SessionCash)
            /\ SoldOf(orders, CodeA) <= SessionHolding
            /\ SoldOf(orders, CodeB) <= 0

(***************************************************************************)
(* Specification of the background scheduler (dashboard.py): the state is  *)
(* taken each time scheduler_loop reads the clock.  now is the second of   *)
(* the day, runs the number of times the job was started on the day, and   *)
(* covered tells that the thread was running before 01:01 of the day       *)
(***************************************************************************)
DaySeconds == 24 * 3600

\* now.hour == 1 in place of the test of hour and minute
TriggerTime_hour(now) == now \div 3600 = 1

\* now.hour == 1 and now.minute == 0
TriggerTime(now) == now \div 3600 = 1 /\ (now % 3600) \div 60 = 0

RunSleep == 61

PollSleep == 30

\* seconds a sleep and the loop body take beyond the time asked for
Slack == {0, 1}

\* the times of day the thread is started at
StartTimes == {0, 3599, 3600, 3629, 3659, 3660, 43200}

\* seconds a run of data_loader.py takes; every run ends within its day
RunDurations == {0, 1, 600, 82000}

\* the clock t seconds later
Later(t) ==
    IF scheduler.now + t >= DaySeconds
    THEN [scheduler EXCEPT !.day = @ + 1, !.now = scheduler.now + t - DaySeconds,
                           !.runs = 0, !.covered = TRUE]
    ELSE [scheduler EXCEPT !.now = @ + t]

SchedulerFrame ==
    /\ UNCHANGED storeVars
    /\ UNCHANGED outVars
    /\ UNCHANGED classifyVars
    /\ UNCHANGED codeVars
    /\ UNCHANGED stepVars
    /\ UNCHANGED tradeVars

InitScheduler ==
    /\ ClassifierIdle
    /\ CodesIdle
    /\ StepsIdle
    /\ TradeIdle
    /\ SchedulerIdle
    /\ stock_basic = NormalBasic
    /\ daily_market = EmptyTable
    /\ margin_data = EmptyTable
    /\ northbound_data = EmptyTable
    /\ main_fund_flow = MissingTable
    /\ report = NoOutput
    /\ signals = NoOutput
    /\ fresh = NoOutput

\* init_scheduler(): the thread starts and reads the clock
StartThread ==
    /\ scheduler.pc = "off"
    /\ \E t \in StartTimes :
          scheduler' = [pc |-> "check", day |-> 0, now |-> t, runs |-> 0,
                        covered |-> t < 3600 + 60]
    /\ SchedulerFrame

\* the test holds: the job runs to its end, then time.sleep(61)
RunJob ==
    /\ scheduler.pc = "check"
    /\ TriggerTime(scheduler.now)
    /\ \E d \in RunDurations, e \in Slack :
          /\ scheduler.now + d < DaySeconds
          /\ LET next == [Later(d + RunSleep + e) EXCEPT
                              !.runs = IF scheduler.now + d + RunSleep + e >= DaySeconds
                                       THEN 0 ELSE scheduler.runs + 1]
             IN  /\ next.day <= MaxDays
                 /\ scheduler' = next
    /\ SchedulerFrame

\* the test fails: time.sleep(30)
Poll ==
    /\ scheduler.pc = "check"
    /\ ~TriggerTime(scheduler.now)
    /\ \E e \in Slack :
          /\ Later(PollSleep + e).day <= MaxDays
          /\ scheduler' = Later(PollSleep + e)
    /\ SchedulerFrame

NextScheduler == StartThread \/ RunJob \/ Poll

SpecScheduler == InitScheduler /\ [][NextScheduler]_vars

\* C25: while the thread runs and every run ends within its day, the job is
\* started in the minute 01:00 of every day and at most once a day: it is
\* never started twice on a day, and when the thread reads the clock after
\* 01:00:59 of a day it was running through, the job has been started that
\* day.
C25_DailyAtOne ==
    scheduler.pc = "check" =>
        /\ scheduler.runs <= 1
        /\ (scheduler.covered /\ scheduler.now >= 3600 + 60) => scheduler.runs = 1

\* the day after the thread was started, past 01:01, the job was started once
C25_Witness ==
    /\ scheduler.pc = "check"
    /\ scheduler.day = 1
    /\ scheduler.now >= 3600 + 60
    /\ scheduler.runs = 1

====
